---- MODULE Spec2Model ----
(***************************************************************************)
(* Model of the multiplayer room of the wordle server: one Room            *)
(* (pkg/server room: JoinRoom, LeaveRoom, StartGame, MakeGuess,            *)
(* GetProgress), the per-player Game (internal/game), the scorer           *)
(* EvaluateGuess, and the long-polling handler HandleRoomProgress with     *)
(* its helper goroutine on the room's condition variable.                  *)
(*                                                                         *)
(* Words are sequences of bytes, one string each.  A nil *game.Game is the  *)
(* record NilGame.  Nicknames carry no behaviour and are left out.         *)
(***************************************************************************)
EXTENDS Integers, Sequences, FiniteSets, TLC

\* ------------------------------------------------------------------ bounds

\* Cap on Room.Version: no mutating call is issued once it is reached.
MaxVersion == 6

\* The same cap for the specification of the long-poll requests.
PollMaxVersion == 3

\* The configured number of rounds of every game (config.MaxRounds).
MaxRounds == 2

\* The wall clock (time.Now().Unix()) runs from 1 to MaxTime.
MaxTime == 2

\* Cap on Room.Version while a client reads snapshots (SnapSpec).
SnapMaxVersion == 6

\* Accepted calls on the room while clients disconnect (CancelSpec).
CancelMaxVersion == 2

\* Cap on Room.Version while rejected calls are examined (FrameSpec).
FrameMaxVersion == 3

\* Cap on Server.idCounter: no new single-player game once it is reached.
MaxSessions == 2

\* Cap on RoomManager.idCounter: no CreateRoom call once it is reached.
MaxRooms == 2

\* The letters the scored words are made of (ScoreSpec).
ScoreLetters == 3

\* ------------------------------------------------------------- identifiers

\* Player ids handed to the room's methods; HostId is the creator's id.
Ids == {"p1", "p2", "p3"}

HostId == "p1"

\* The requests' maxPlayers values given to CreateRoom.
ReqMaxPlayers == {-1, 0, 1, 2, 3, 9}

\* The player ids of a burst of concurrent Join calls.
BurstIds == {"j1", "j2", "j3", "j4", "j5"}

\* Long-poll requests (one HandleRoomProgress call each).
Waiters == {"w1", "w2"}

NoOne == "none"

\* The holder of Room.mu while a GetProgress call holds the read lock.
Reader == "reader"

\* Concurrent callers of RoomManager.CreateRoom.
Creators == {"c1", "c2"}

\* ------------------------------------------------------------------- words

APPLE == <<"A", "P", "P", "L", "E">>

PAPAL == <<"P", "A", "P", "A", "L">>

\* The server's validated word list (config.WordList).
WordList == <<APPLE>>

\* A string is the sequence of its bytes.  An ASCII character stands for its
\* byte; the bytes "C3" "A9" are the UTF-8 encoding of the letter e-acute
\* (U+00E9) and "C3" "89" that of its capital (U+00C9).
LeadByte == "C3"

TailRune == ("A9" :> "U+00E9") @@ ("89" :> "U+00C9")

\* What `for _, ch := range word` yields: the runes of a string, U+FFFD for
\* a byte that starts no valid encoding.
RECURSIVE Runes(_)
Runes(w) ==
    IF w = <<>> THEN <<>>
    ELSE IF w[1] = LeadByte /\ Len(w) >= 2 /\ w[2] \in DOMAIN TailRune
         THEN <<TailRune[w[2]]>> \o Runes(SubSeq(w, 3, Len(w)))
         ELSE IF w[1] = LeadByte \/ w[1] \in DOMAIN TailRune
              THEN <<"U+FFFD">> \o Runes(SubSeq(w, 2, Len(w)))
              ELSE <<w[1]>> \o Runes(SubSeq(w, 2, Len(w)))

\* strings.ToUpper on the letters the model uses (on well-formed UTF-8 the
\* byte A9 follows C3 and becomes 89).
UpperOf == [a |-> "A", e |-> "E", l |-> "L", p |-> "P", A9 |-> "89"]

UpperLetters == {"A", "D", "E", "G", "L", "P", "R", "S"}

\* unicode.IsLetter holds of these runes.
Letters == UpperLetters \cup {"a", "e", "l", "p"} \cup {"U+00E9", "U+00C9"}

ToUpperCh(c) == IF c \in DOMAIN UpperOf THEN UpperOf[c] ELSE c

ToUpper(w) == [i \in 1..Len(w) |-> ToUpperCh(w[i])]

\* strings.TrimSpace: drops leading and trailing blanks.
RECURSIVE TrimLeft(_)
TrimLeft(w) == IF Len(w) > 0 /\ w[1] = " " THEN TrimLeft(Tail(w)) ELSE w

RECURSIVE TrimRight(_)
TrimRight(w) ==
    IF Len(w) > 0 /\ w[Len(w)] = " " THEN TrimRight(SubSeq(w, 1, Len(w) - 1)) ELSE w

TrimSpace(w) == TrimRight(TrimLeft(w))

\* game.ValidateWord: exactly 5 characters, all letters.
\* len(word) counts bytes; the loop ranges over runes.
ValidateWord(w) ==
    /\ Len(w) = 5
    /\ LET rs == Runes(w) IN \A i \in 1..Len(rs) : rs[i] \in Letters

\* The raw guesses submitted: the answer, the answer in lower case, the
\* answer with a leading blank, a wrong word, a word that is too short and a
\* word with a digit.
GuessInputs ==
    { APPLE,
      <<"a", "p", "p", "l", "e">>,
      <<" ", "A", "P", "P", "L", "E">>,
      PAPAL,
      <<"A", "P", "P", "L">>,
      <<"A", "P", "1", "L", "E">> }

\* ------------------------------------------------------------ EvaluateGuess

\* answerLetterCount after the first loop: the occurrences of each rune of
\* the answer.
LetterCount(answer) ==
    LET rs == Runes(answer)
    IN  [c \in {rs[i] : i \in 1..Len(rs)} |->
            Cardinality({i \in 1..Len(rs) : rs[i] = c})]

\* Mutant of Decrement: a marked letter takes no occurrence of the answer.
DecrementNone(cnt, b) == cnt

\* answerLetterCount[rune(b)]--, where b is a byte of the guess: an entry
\* for a rune that is not in the map is created below zero and, like any
\* entry that is not positive, never yields Present.
Decrement(cnt, b) == IF b \in DOMAIN cnt THEN [cnt EXCEPT ![b] = @ - 1] ELSE cnt

\* First pass: every exact match takes one occurrence of its letter.
RECURSIVE FirstPass(_, _, _, _, _)
FirstPass(i, guess, answer, statuses, cnt) ==
    IF i > 5 THEN [statuses |-> statuses, cnt |-> cnt]
    ELSE IF guess[i] = answer[i]
         THEN FirstPass(i + 1, guess, answer,
                        [statuses EXCEPT ![i] = "Hit"],
                        Decrement(cnt, guess[i]))
         ELSE FirstPass(i + 1, guess, answer, statuses, cnt)

\* Second pass, left to right over the positions that are not Hit.
RECURSIVE SecondPass(_, _, _, _)
SecondPass(i, guess, statuses, cnt) ==
    IF i > 5 THEN statuses
    ELSE IF statuses[i] = "Hit"
         THEN SecondPass(i + 1, guess, statuses, cnt)
         ELSE IF guess[i] \in DOMAIN cnt /\ cnt[guess[i]] > 0
              THEN SecondPass(i + 1, guess,
                              [statuses EXCEPT ![i] = "Present"],
                              Decrement(cnt, guess[i]))
              ELSE SecondPass(i + 1, guess,
                              [statuses EXCEPT ![i] = "Miss"], cnt)

\* Mutant of EvaluateGuess: a single pass, with no exact matches set aside
\* first.
EvaluateGuessOnePass(guess, answer) ==
    LET g == ToUpper(guess)
        a == ToUpper(answer)
        hits == [i \in 1..5 |-> IF g[i] = a[i] THEN "Hit" ELSE "Miss"]
        cnt == LetterCount(a)
        one == SecondPass(1, g, [i \in 1..5 |-> "Miss"], cnt)
    IN  [Guess |-> g,
         Statuses |-> [i \in 1..5 |-> IF hits[i] = "Hit" THEN "Hit" ELSE one[i]]]

EvaluateGuess(guess, answer) ==
    LET g == ToUpper(guess)
        a == ToUpper(answer)
        p1 == FirstPass(1, g, a, [i \in 1..5 |-> "Miss"], LetterCount(a))
    IN  [Guess |-> g, Statuses |-> SecondPass(1, g, p1.statuses, p1.cnt)]

\* convertToAPIResults: the display symbol of each letter status.
ConvertToAPIResults(result) ==
    [i \in 1..Len(result.Statuses) |->
        CASE result.Statuses[i] = "Hit" -> "O"
          [] result.Statuses[i] = "Present" -> "?"
          [] result.Statuses[i] = "Miss" -> "_"
          [] OTHER -> "?"]

\* --------------------------------------------------------------- game.Game

NilGame ==
    [Answer |-> <<>>, MaxRounds |-> 0, CurrentRound |-> 0,
     History |-> <<>>, Status |-> "nil"]

\* game.NewGameWithAnswer: a fresh game on a given answer.
NewGameWithAnswer(maxRounds, answer) ==
    [Answer |-> answer, MaxRounds |-> maxRounds, CurrentRound |-> 0,
     History |-> <<>>, Status |-> "InProgress"]

ErrGameOver == "game is already over"

ErrInvalidWord == "invalid word: must be 5 letters, alphabetic only"

OK == "ok"

\* Game.MakeGuess: the error it returns ("ok" for none).
GameGuessErr(g, raw) ==
    IF g.Status # "InProgress" THEN ErrGameOver
    ELSE IF ~ValidateWord(TrimSpace(raw)) THEN ErrInvalidWord
    ELSE OK

\* Game.MakeGuess on an accepted guess: the result of the round.
GameGuessResult(g, raw) == EvaluateGuess(ToUpper(TrimSpace(raw)), g.Answer)

\* Mutant of GameAfterGuess: the round limit is checked before the win.
GameAfterGuessLostFirst(g, raw) ==
    LET guess == ToUpper(TrimSpace(raw))
        round == g.CurrentRound + 1
        hist == Append(g.History, EvaluateGuess(guess, g.Answer))
    IN  [g EXCEPT !.CurrentRound = round,
                  !.History = hist,
                  !.Status = IF round >= g.MaxRounds THEN "Lost"
                             ELSE IF guess = g.Answer THEN "Won"
                             ELSE "InProgress"]

\* Mutant of GameAfterGuess: a guess made on the last round is not counted.
GameAfterGuessNoLastRound(g, raw) ==
    LET guess == ToUpper(TrimSpace(raw))
        round == IF g.CurrentRound + 1 >= g.MaxRounds /\ guess # g.Answer
                 THEN g.CurrentRound ELSE g.CurrentRound + 1
        hist == Append(g.History, EvaluateGuess(guess, g.Answer))
    IN  [g EXCEPT !.CurrentRound = round,
                  !.History = hist,
                  !.Status = IF guess = g.Answer THEN "Won"
                             ELSE IF g.CurrentRound + 1 >= g.MaxRounds THEN "Lost"
                             ELSE "InProgress"]

\* Game.MakeGuess on an accepted guess: the game afterwards.
GameAfterGuess(g, raw) ==
    LET guess == ToUpper(TrimSpace(raw))
        round == g.CurrentRound + 1
        hist == Append(g.History, EvaluateGuess(guess, g.Answer))
    IN  [g EXCEPT !.CurrentRound = round,
                  !.History = hist,
                  !.Status = IF guess = g.Answer THEN "Won"
                             ELSE IF round >= g.MaxRounds THEN "Lost"
                             ELSE "InProgress"]

\* -------------------------------------------------------------------- state

VARIABLES
    Host,          \* Room.Host
    Answer,        \* Room.Answer
    MaxPlayers,    \* Room.MaxPlayers
    Status,        \* Room.Status: "waiting", "playing", "finished"
    Players,       \* Room.Players: id -> Player
    PlayerOrder,   \* Room.PlayerOrder
    Version,       \* Room.Version
    now,           \* time.Now().Unix()
    ret,           \* the last Room call and the error it returned
    lockHolder,    \* the helper goroutine that holds Room.mu across steps
    hpc,           \* HandleRoomProgress: where each request's handler is
    gpc,           \* HandleRoomProgress: where each request's goroutine is
    lastVersion,   \* the version query parameter of each request
    currentVersion,\* the Room.Version the handler read on arrival
    timedOut,      \* the request's 30 s deadline has expired
    clientGone,    \* the request's client has disconnected
    done,          \* the request's done channel is closed
    resp,          \* the response written to the request (NoResp: none)
    burst,         \* a burst of concurrent Join calls and what each returned
    rd,            \* a client reading Room.GetProgress: the call under way
                   \* and the last snapshot it was given
    session,       \* the single-player server: Server.idCounter, the newest
                   \* GameSession and what the last call on it returned
    mgr,           \* the RoomManager (idCounter, rooms), the CreateRoom
                   \* calls under way and what the last GetRoom returned
    ev,            \* a call of EvaluateGuess: its arguments and its result
    srv            \* the server's ListRooms and HandleJoinRoom on the room: the
                   \* step under way and what was read

roomVars == <<Host, Answer, MaxPlayers, Status, Players, PlayerOrder, Version>>

pollVars == <<hpc, gpc, lastVersion, currentVersion, timedOut, clientGone, done, resp>>

vars == <<roomVars, now, ret, lockHolder, pollVars, burst, rd, session, mgr, ev, srv>>

\* No response (of a request), no returned value (of a call).
NoResp ==
    [Status |-> "none", Players |-> <<>>, Version |-> -1, Answer |-> <<>>,
     Ranking |-> <<>>, Winner |-> "none"]

\* What a Room call returned: the call, its player, its error, its value.
Return(op, p, err, val) == [op |-> op, pid |-> p, err |-> err, val |-> val]

\* ----------------------------------------------------------- RoomManager

\* CreateRoom: the room's MaxPlayers for a requested value.
NormMaxPlayers(req) == IF req <= 0 \/ req > 8 THEN 4 ELSE req

\* A Player as JoinRoom and CreateRoom make it.
NewPlayer(id) ==
    [ID |-> id, Status |-> "waiting", Game |-> NilGame,
     History |-> <<>>, FinishTime |-> 0]

InitRoom ==
    /\ Host = HostId
    /\ Answer \in {WordList[i] : i \in 1..Len(WordList)}
    /\ MaxPlayers \in {NormMaxPlayers(req) : req \in ReqMaxPlayers}
    /\ Status = "waiting"
    /\ Players = (HostId :> NewPlayer(HostId))
    /\ PlayerOrder = <<HostId>>
    /\ Version = 0

InitPoll ==
    /\ hpc = [w \in Waiters |-> "idle"]
    /\ gpc = [w \in Waiters |-> "idle"]
    /\ lastVersion = [w \in Waiters |-> 0]
    /\ currentVersion = [w \in Waiters |-> 0]
    /\ timedOut = [w \in Waiters |-> FALSE]
    /\ clientGone = [w \in Waiters |-> FALSE]
    /\ done = [w \in Waiters |-> FALSE]
    /\ resp = [w \in Waiters |-> NoResp]

\* The concurrent Join calls of a burst, none of them run yet.
InitBurst ==
    burst = [before |-> 1, result |-> [j \in BurstIds |-> "pending"]]

\* No GetProgress call under way, no snapshot received yet.
InitRead == rd = [pc |-> "idle", players |-> <<>>, last |-> NoResp]

\* What a call on the single-player server returned.
SessionReturn(op, err, val) == [op |-> op, err |-> err, val |-> val]

InitSession ==
    session = [idCounter |-> 0, ID |-> "", Game |-> NilGame, History |-> <<>>,
               ret |-> SessionReturn("none", OK, NoResp)]

\* A nil *Room.
NilRoom ==
    [ID |-> "", Host |-> NoOne, Answer |-> <<>>, MaxRounds |-> 0,
     MaxPlayers |-> 0, Status |-> "nil", PlayerOrder |-> <<>>, Version |-> 0]

\* A CreateRoom call: where it is, its arguments, the answer it selected and
\* what it returned.
NoCall ==
    [pc |-> "idle", maxPlayers |-> 0, maxRounds |-> 0, wordList |-> <<>>,
     answer |-> <<>>, err |-> "none", id |-> ""]

InitManager ==
    mgr = [idCounter |-> 0,
           rooms |-> [id \in {} |-> NilRoom],
           calls |-> [c \in Creators |-> NoCall],
           got |-> [id |-> "", room |-> NilRoom, exists |-> FALSE]]

InitScore == ev = [guess |-> <<>>, answer |-> <<>>, result |-> <<>>]

\* No ListRooms call and no join handler yet.
InitServer ==
    srv = [op |-> "none", listed |-> FALSE,
           join |-> [pc |-> "idle", pid |-> "", seen |-> 0, players |-> <<>>,
                     isHost |-> FALSE]]

Init ==
    /\ InitRoom
    /\ InitPoll
    /\ InitBurst
    /\ InitRead
    /\ InitSession
    /\ InitManager
    /\ InitScore
    /\ InitServer
    /\ now = 1
    /\ ret = Return("CreateRoom", HostId, OK, NoResp)
    /\ lockHolder = NoOne

\* --------------------------------------------------------------------- Room

ErrNotAccepting == "room is not accepting new players"

ErrRoomFull == "room is full"

ErrDuplicate == "player already in room"

ErrNotInRoom == "player not in room"

ErrNotHost == "only host can start the game"

ErrAlreadyStarted == "game already started"

ErrNotEnough == "need at least 2 players to start"

ErrNotInProgress == "game not in progress"

ErrPlayerNotFound == "player not found"

ErrAlreadyFinished == "player already finished"

\* sync.Cond.Broadcast: every goroutine parked in Wait becomes runnable.
Broadcast == gpc' = [w \in Waiters |-> IF gpc[w] = "parked" THEN "woken" ELSE gpc[w]]

\* sync.Cond.Signal in place of Broadcast: one parked goroutine becomes
\* runnable.
Signal ==
    IF \E w \in Waiters : gpc[w] = "parked"
    THEN \E w \in Waiters :
            /\ gpc[w] = "parked"
            /\ gpc' = [gpc EXCEPT ![w] = "woken"]
    ELSE UNCHANGED gpc

\* Mutant of notifyUpdate: the version is not incremented.
notifyUpdateNoBump ==
    /\ Version' = Version
    /\ Broadcast

\* Mutant of notifyUpdate: a single waiter is woken.
notifyUpdateSignal ==
    /\ Version' = Version + 1
    /\ Signal

\* Room.notifyUpdate
notifyUpdate ==
    /\ Version' = Version + 1
    /\ Broadcast

\* What a call on the room leaves alone besides the room itself.
CallFrame ==
    UNCHANGED <<now, lockHolder, hpc, lastVersion, currentVersion, timedOut, clientGone, done, resp, burst, rd, session, mgr, ev, srv>>

\* Mutant of Rejected: the deferred code notifies on every return.
RejectedNotifies(op, p, err) ==
    /\ ret' = Return(op, p, err, NoResp)
    /\ notifyUpdate
    /\ UNCHANGED <<Host, Answer, MaxPlayers, Status, Players, PlayerOrder>>

\* A call that returns an error before changing anything.
Rejected(op, p, err) ==
    /\ ret' = Return(op, p, err, NoResp)
    /\ UNCHANGED <<roomVars, gpc>>

\* Mutant of JoinErr: the capacity test is off by one.
JoinErrOffByOne(p) ==
    IF Status # "waiting" THEN ErrNotAccepting
    ELSE IF Cardinality(DOMAIN Players) > MaxPlayers THEN ErrRoomFull
    ELSE IF p \in DOMAIN Players THEN ErrDuplicate
    ELSE OK

\* Mutant of JoinErr: a player id already in the room is not refused.
JoinErrNoDup(p) ==
    IF Status # "waiting" THEN ErrNotAccepting
    ELSE IF Cardinality(DOMAIN Players) >= MaxPlayers THEN ErrRoomFull
    ELSE OK

\* Room.JoinRoom: the error it returns.
JoinErr(p) ==
    IF Status # "waiting" THEN ErrNotAccepting
    ELSE IF Cardinality(DOMAIN Players) >= MaxPlayers THEN ErrRoomFull
    ELSE IF p \in DOMAIN Players THEN ErrDuplicate
    ELSE OK

\* Room.JoinRoom, from Lock to Unlock.
JoinRoomBody(p) ==
    /\ lockHolder = NoOne
    /\ IF JoinErr(p) # OK
       THEN Rejected("Join", p, JoinErr(p))
       ELSE /\ Players' = (p :> NewPlayer(p)) @@ Players
            /\ PlayerOrder' = Append(PlayerOrder, p)
            /\ notifyUpdate
            /\ ret' = Return("Join", p, OK, NoResp)
            /\ UNCHANGED <<Host, Answer, MaxPlayers, Status>>

\* A Join call, issued and run.
JoinRoom(p) == JoinRoomBody(p) /\ CallFrame

\* Mutant of RemoveFirst: the order is left as it was.
RemoveFirstNone(order, p) == order

\* The loop of LeaveRoom: the order without its first entry equal to p.
RemoveFirst(order, p) ==
    IF \E i \in 1..Len(order) : order[i] = p
    THEN LET i == CHOOSE k \in 1..Len(order) :
                    order[k] = p /\ \A j \in 1..(k - 1) : order[j] # p
         IN  SubSeq(order, 1, i - 1) \o SubSeq(order, i + 1, Len(order))
    ELSE order

\* Room.LeaveRoom: the error it returns.
LeaveErr(p) == IF p \notin DOMAIN Players THEN ErrNotInRoom ELSE OK

\* Mutant of HostAfterLeave: the last entry of the order becomes host.
HostAfterLeaveLast(p, players, order) ==
    IF Host = p /\ Cardinality(DOMAIN players) > 0 THEN order[Len(order)] ELSE Host

\* Room.LeaveRoom: the host after p has left.
HostAfterLeave(p, players, order) ==
    IF Host = p /\ Cardinality(DOMAIN players) > 0 THEN order[1] ELSE Host

LeaveRoom(p) ==
    /\ lockHolder = NoOne
    /\ IF LeaveErr(p) # OK
       THEN Rejected("Leave", p, LeaveErr(p))
       ELSE /\ Players' = [q \in DOMAIN Players \ {p} |-> Players[q]]
            /\ PlayerOrder' = RemoveFirst(PlayerOrder, p)
            /\ Host' = HostAfterLeave(p, Players', PlayerOrder')
            /\ notifyUpdate
            /\ ret' = Return("Leave", p, OK, NoResp)
            /\ UNCHANGED <<Answer, MaxPlayers, Status>>
    /\ CallFrame

\* Mutant of StartErr: the number of players is not tested.
StartErrNoCount(p) ==
    IF p # Host THEN ErrNotHost
    ELSE IF Status # "waiting" THEN ErrAlreadyStarted
    ELSE OK

\* Mutant of StartErr: the room status is tested before the caller.
StartErrStatusFirst(p) ==
    IF Status # "waiting" THEN ErrAlreadyStarted
    ELSE IF p # Host THEN ErrNotHost
    ELSE IF Cardinality(DOMAIN Players) < 2 THEN ErrNotEnough
    ELSE OK

\* Room.StartGame: the error it returns.
StartErr(p) ==
    IF p # Host THEN ErrNotHost
    ELSE IF Status # "waiting" THEN ErrAlreadyStarted
    ELSE IF Cardinality(DOMAIN Players) < 2 THEN ErrNotEnough
    ELSE OK

StartGame(p) ==
    /\ lockHolder = NoOne
    /\ IF StartErr(p) # OK
       THEN Rejected("Start", p, StartErr(p))
       ELSE /\ Players' = [q \in DOMAIN Players |->
                              [Players[q] EXCEPT
                                  !.Game = NewGameWithAnswer(MaxRounds, Answer),
                                  !.Status = "playing"]]
            /\ Status' = "playing"
            /\ notifyUpdate
            /\ ret' = Return("Start", p, OK, NoResp)
            /\ UNCHANGED <<Host, Answer, MaxPlayers, PlayerOrder>>
    /\ CallFrame

\* Mutant of checkGameEnd: a winner alone does not end the race.
checkGameEndAllOnly(players, status) ==
    IF \A q \in DOMAIN players : players[q].Status # "playing"
    THEN "finished" ELSE status

\* Room.checkGameEnd: the room status it leaves, for the given players.
checkGameEnd(players, status) ==
    LET allFinished == \A q \in DOMAIN players : players[q].Status # "playing"
        hasWinner == \E q \in DOMAIN players : players[q].Status = "won"
    IN  IF hasWinner \/ allFinished THEN "finished" ELSE status

\* Mutant of GuessErr: the player is looked up before the room status is
\* tested.
GuessErrPlayerFirst(p, raw) ==
    IF p \notin DOMAIN Players THEN ErrPlayerNotFound
    ELSE IF Status # "playing" THEN ErrNotInProgress
    ELSE IF Players[p].Status # "playing" THEN ErrAlreadyFinished
    ELSE GameGuessErr(Players[p].Game, raw)

\* Room.MakeGuess: the error it returns.
GuessErr(p, raw) ==
    IF Status # "playing" THEN ErrNotInProgress
    ELSE IF p \notin DOMAIN Players THEN ErrPlayerNotFound
    ELSE IF Players[p].Status # "playing" THEN ErrAlreadyFinished
    ELSE GameGuessErr(Players[p].Game, raw)

\* Mutant of GuessResponse: the answer is filled in once the player's game
\* is over, as GameSession.MakeGuess does for a single-player game.
GuessResponseWithAnswer(g, result) ==
    [Guess |-> result.Guess,
     Results |-> ConvertToAPIResults(result),
     GameOver |-> g.Status # "InProgress",
     CurrentRound |-> g.CurrentRound,
     MaxRounds |-> g.MaxRounds,
     GameStatus |-> CASE g.Status = "Won" -> "won"
                      [] g.Status = "Lost" -> "lost"
                      [] OTHER -> "in_progress",
     Answer |-> IF g.Status # "InProgress" THEN g.Answer ELSE <<>>]

\* Room.MakeGuess: the api.GuessResponse built from the game after the
\* guess; its Answer field is never assigned.
GuessResponse(g, result) ==
    [Guess |-> result.Guess,
     Results |-> ConvertToAPIResults(result),
     GameOver |-> g.Status # "InProgress",
     CurrentRound |-> g.CurrentRound,
     MaxRounds |-> g.MaxRounds,
     GameStatus |-> CASE g.Status = "Won" -> "won"
                      [] g.Status = "Lost" -> "lost"
                      [] OTHER -> "in_progress",
     Answer |-> <<>>]

\* Mutant of PlayerAfterGuess: only a win is recorded on the player.
PlayerAfterGuessWinOnly(pl, raw) ==
    LET g == GameAfterGuess(pl.Game, raw)
        response == GuessResponse(g, GameGuessResult(pl.Game, raw))
    IN  [pl EXCEPT
            !.Game = g,
            !.Status = IF g.Status = "Won" THEN "won" ELSE pl.Status,
            !.FinishTime = IF g.Status = "Won" THEN now ELSE pl.FinishTime,
            !.History = Append(pl.History, response)]

\* Room.MakeGuess: the player after an accepted guess.
PlayerAfterGuess(pl, raw) ==
    LET g == GameAfterGuess(pl.Game, raw)
        response == GuessResponse(g, GameGuessResult(pl.Game, raw))
    IN  [pl EXCEPT
            !.Game = g,
            !.Status = CASE g.Status = "Won" -> "won"
                         [] g.Status = "Lost" -> "lost"
                         [] OTHER -> pl.Status,
            !.FinishTime = IF g.Status \in {"Won", "Lost"} THEN now ELSE pl.FinishTime,
            !.History = Append(pl.History, response)]

\* Mutant of StatusAfterGuess: the end of the race is looked for only when
\* the player has lost.
StatusAfterGuessLostOnly(p, players) ==
    IF players[p].Game.Status = "Lost"
    THEN checkGameEnd(players, Status)
    ELSE Status

\* Room.MakeGuess: the room status after an accepted guess left `players`.
StatusAfterGuess(p, players) ==
    IF players[p].Game.Status \in {"Won", "Lost"}
    THEN checkGameEnd(players, Status)
    ELSE Status

MakeGuess(p, raw) ==
    /\ lockHolder = NoOne
    /\ IF GuessErr(p, raw) # OK
       THEN Rejected("Guess", p, GuessErr(p, raw))
       ELSE /\ Players' = [Players EXCEPT ![p] = PlayerAfterGuess(Players[p], raw)]
            /\ Status' = StatusAfterGuess(p, Players')
            /\ notifyUpdate
            /\ ret' = Return("Guess", p, OK, NoResp)
            /\ UNCHANGED <<Host, Answer, MaxPlayers, PlayerOrder>>
    /\ CallFrame

\* The wall clock advances.
Tick ==
    /\ now < MaxTime
    /\ now' = now + 1
    /\ UNCHANGED <<roomVars, ret, lockHolder, pollVars, burst, rd, session, mgr, ev, srv>>

\* Room.GetStatus: reads the room under its lock and changes nothing.
GetStatus ==
    /\ lockHolder = NoOne
    /\ ret' = Return("Status", NoOne, OK, NoResp)
    /\ UNCHANGED <<roomVars, now, lockHolder, pollVars, burst, rd, session, mgr, ev, srv>>

\* ------------------------------------------------------- Room.GetProgress

\* Mutant of NeedSwap: winners with equal rounds are not compared by finish
\* time.
NeedSwapNoTime(a, b) ==
    IF a.won # b.won THEN ~a.won
    ELSE IF a.rounds # b.rounds THEN a.rounds > b.rounds
    ELSE ~a.won /\ a.finishTime > b.finishTime

\* calculateRanking: the comparison that decides a swap of ranks i and j.
NeedSwap(a, b) ==
    IF a.won # b.won THEN ~a.won
    ELSE IF a.won
         THEN IF a.rounds # b.rounds THEN a.rounds > b.rounds
              ELSE a.finishTime > b.finishTime
         ELSE IF a.rounds # b.rounds THEN a.rounds > b.rounds
              ELSE a.finishTime > b.finishTime

\* calculateRanking: the two nested loops over ranks (1-based here).
RECURSIVE SortRanks(_, _, _)
SortRanks(ranks, i, j) ==
    IF i > Len(ranks) THEN ranks
    ELSE IF j > Len(ranks) THEN SortRanks(ranks, i + 1, i + 2)
    ELSE IF NeedSwap(ranks[i], ranks[j])
         THEN SortRanks([ranks EXCEPT ![i] = ranks[j], ![j] = ranks[i]], i, j + 1)
         ELSE SortRanks(ranks, i, j + 1)

\* calculateRanking, with the players met in the order `iter` by the range
\* over the map r.Players.
calculateRanking(iter) ==
    LET ranks == [k \in 1..Len(iter) |->
                    [playerID |-> Players[iter[k]].ID,
                     won |-> Players[iter[k]].Status = "won",
                     rounds |-> Players[iter[k]].Game.CurrentRound,
                     finishTime |-> Players[iter[k]].FinishTime]]
        sorted == SortRanks(ranks, 1, 2)
    IN  [k \in 1..Len(sorted) |-> sorted[k].playerID]

\* The orders in which a range over a map with key set S can meet its keys.
MapOrders(S) ==
    {o \in [1..Cardinality(S) -> S] : \A a, b \in 1..Cardinality(S) : a # b => o[a] # o[b]}

\* api.PlayerProgress of one player.
PlayerProgress(id) ==
    [PlayerID |-> Players[id].ID,
     CurrentRound |-> IF Players[id].Game # NilGame
                      THEN Players[id].Game.CurrentRound ELSE 0,
     Status |-> Players[id].Status,
     History |-> Players[id].History,
     FinishTime |-> Players[id].FinishTime]

\* Room.GetProgress for one iteration order of the map (the order matters
\* only to the ranking).  The Timestamp field is left out.
ProgressWith(iter) ==
    [Status |-> Status,
     Players |-> [k \in 1..Len(PlayerOrder) |-> PlayerProgress(PlayerOrder[k])],
     Version |-> Version,
     Answer |-> IF Status = "finished" THEN Answer ELSE <<>>,
     Ranking |-> IF Status = "finished" THEN calculateRanking(iter) ELSE <<>>,
     Winner |-> IF Status = "finished" /\ Len(iter) > 0
                THEN calculateRanking(iter)[1] ELSE NoOne]

\* The responses Room.GetProgress can build in the current state.
GetProgress ==
    IF Status = "finished"
    THEN {ProgressWith(iter) : iter \in MapOrders(DOMAIN Players)}
    ELSE {ProgressWith(<<>>)}

\* Room.GetProgress built from a player list read earlier in the call.
ProgressFrom(players, iter) == [ProgressWith(iter) EXCEPT !.Players = players]

\* Mutant of RLock: GetProgress reads the room without taking the lock.
RLockMissing == UNCHANGED lockHolder

\* r.mu.RLock() of GetProgress: writers are kept out until RUnlock.
RLock == lockHolder = NoOne /\ lockHolder' = Reader

\* GetProgress, first half: RLock and the loop over PlayerOrder that
\* copies every player's progress.
ReadPlayers ==
    /\ rd.pc = "idle"
    /\ RLock
    /\ rd' = [rd EXCEPT !.pc = "read",
                         !.players = [k \in 1..Len(PlayerOrder) |->
                                         PlayerProgress(PlayerOrder[k])]]
    /\ UNCHANGED <<roomVars, now, ret, pollVars, burst, session, mgr, ev, srv>>

\* GetProgress, second half: the response with Status and Version, the
\* answer and ranking of a finished room, and the deferred RUnlock.
ReadReturn ==
    /\ rd.pc = "read"
    /\ \E iter \in IF Status = "finished" THEN MapOrders(DOMAIN Players) ELSE {<<>>} :
          rd' = [pc |-> "idle", players |-> <<>>,
                 last |-> ProgressFrom(rd.players, iter)]
    /\ lockHolder' = NoOne
    /\ UNCHANGED <<roomVars, now, ret, pollVars, burst, session, mgr, ev, srv>>

\* ------------------------------------------------- Server.HandleRoomProgress

\* ctx.Done() of the request: the 30 s timeout or the client's disconnect.
CtxDone(w) == timedOut[w] \/ clientGone[w]

\* The request arrives with lastVersion = v; the handler reads Room.Version
\* under the read lock and either takes the immediate path or creates the
\* context and starts the helper goroutine.
PollBegin(w, v) ==
    /\ hpc[w] = "idle"
    /\ lockHolder = NoOne
    /\ lastVersion' = [lastVersion EXCEPT ![w] = v]
    /\ currentVersion' = [currentVersion EXCEPT ![w] = Version]
    /\ IF Version > v
       THEN /\ hpc' = [hpc EXCEPT ![w] = "fast"]
            /\ UNCHANGED gpc
       ELSE /\ hpc' = [hpc EXCEPT ![w] = "select"]
            /\ gpc' = [gpc EXCEPT ![w] = "lock"]
    /\ UNCHANGED <<roomVars, now, ret, lockHolder, timedOut, clientGone, done, resp, burst, rd, session, mgr, ev, srv>>

\* The immediate path: room.GetProgress() and the response.
PollFast(w) ==
    /\ hpc[w] = "fast"
    /\ lockHolder = NoOne
    /\ \E snap \in GetProgress : resp' = [resp EXCEPT ![w] = snap]
    /\ hpc' = [hpc EXCEPT ![w] = "done"]
    /\ UNCHANGED <<roomVars, now, ret, lockHolder, gpc, lastVersion, currentVersion, timedOut, clientGone, done, burst, rd, session, mgr, ev, srv>>

\* The goroutine returns: close(done) and room.mu.Unlock() (deferred).
GoExit(w) ==
    /\ gpc' = [gpc EXCEPT ![w] = "exit"]
    /\ done' = [done EXCEPT ![w] = TRUE]
    /\ lockHolder' = NoOne

\* Mutant of GoLoopCond: an if in place of the for, the version is not
\* tested again after a wake-up.
GoLoopCondIf(w) == gpc[w] = "lock" /\ Version = lastVersion[w]

\* The goroutine's loop condition: for room.Version == lastVersion.
GoLoopCond(w) == Version = lastVersion[w]

\* The goroutine takes room.mu (at its start, or on return from Wait),
\* evaluates the loop condition and, inside the loop, the select on
\* ctx.Done() with its default branch.  It either returns or goes on, still
\* holding the lock, to call Wait.  The three are one step: between the Lock
\* and the select nothing else can touch the room, and the select reads the
\* context at the moment of this step.
GoEnter(w) ==
    /\ gpc[w] \in {"lock", "woken"}
    /\ lockHolder = NoOne
    /\ IF GoLoopCond(w) /\ ~CtxDone(w)
       THEN /\ gpc' = [gpc EXCEPT ![w] = "wait"]
            /\ lockHolder' = w
            /\ UNCHANGED done
       ELSE GoExit(w)
    /\ UNCHANGED <<roomVars, now, ret, hpc, lastVersion, currentVersion, timedOut, clientGone, resp, burst, rd, session, mgr, ev, srv>>

\* Mutant of GoWait: the goroutine parks without releasing Room.mu.
GoWaitKeepsLock(w) ==
    /\ gpc[w] = "wait"
    /\ lockHolder = w
    /\ gpc' = [gpc EXCEPT ![w] = "parked"]
    /\ UNCHANGED lockHolder
    /\ UNCHANGED <<roomVars, now, ret, hpc, lastVersion, currentVersion, timedOut, clientGone, done, resp, burst, rd, session, mgr, ev, srv>>

\* room.updateCond.Wait(): joins the wait list and releases the lock.
GoWait(w) ==
    /\ gpc[w] = "wait"
    /\ lockHolder = w
    /\ gpc' = [gpc EXCEPT ![w] = "parked"]
    /\ lockHolder' = NoOne
    /\ UNCHANGED <<roomVars, now, ret, hpc, lastVersion, currentVersion, timedOut, clientGone, done, resp, burst, rd, session, mgr, ev, srv>>

\* The handler's select takes case <-done: GetProgress and the response.
SelectDone(w) ==
    /\ hpc[w] = "select"
    /\ done[w]
    /\ lockHolder = NoOne
    /\ \E snap \in GetProgress : resp' = [resp EXCEPT ![w] = snap]
    /\ hpc' = [hpc EXCEPT ![w] = "done"]
    /\ UNCHANGED <<roomVars, now, ret, lockHolder, gpc, lastVersion, currentVersion, timedOut, clientGone, done, burst, rd, session, mgr, ev, srv>>

\* The handler's select takes case <-ctx.Done(): Broadcast, without the lock.
SelectCtx(w) ==
    /\ hpc[w] = "select"
    /\ CtxDone(w)
    /\ Broadcast
    /\ hpc' = [hpc EXCEPT ![w] = "waitdone"]
    /\ UNCHANGED <<roomVars, now, ret, lockHolder, lastVersion, currentVersion, timedOut, clientGone, done, resp, burst, rd, session, mgr, ev, srv>>

\* The handler after <-done on the ctx.Done() path: nothing is written for
\* a disconnected client, the current progress on a timeout.
AfterDone(w) ==
    /\ hpc[w] = "waitdone"
    /\ done[w]
    /\ IF clientGone[w]
       THEN UNCHANGED resp
       ELSE /\ lockHolder = NoOne
            /\ \E snap \in GetProgress : resp' = [resp EXCEPT ![w] = snap]
    /\ hpc' = [hpc EXCEPT ![w] = "done"]
    /\ UNCHANGED <<roomVars, now, ret, lockHolder, gpc, lastVersion, currentVersion, timedOut, clientGone, done, burst, rd, session, mgr, ev, srv>>

\* The 30 s deadline of the request's context expires.
Timeout(w) ==
    /\ hpc[w] = "select"
    /\ ~CtxDone(w)
    /\ timedOut' = [timedOut EXCEPT ![w] = TRUE]
    /\ UNCHANGED <<roomVars, now, ret, lockHolder, hpc, gpc, lastVersion, currentVersion, clientGone, done, resp, burst, rd, session, mgr, ev, srv>>

\* The client disconnects: the request's context is cancelled.
ClientCancel(w) ==
    /\ hpc[w] \in {"select", "waitdone"}
    /\ ~clientGone[w]
    /\ clientGone' = [clientGone EXCEPT ![w] = TRUE]
    /\ UNCHANGED <<roomVars, now, ret, lockHolder, hpc, gpc, lastVersion, currentVersion, timedOut, done, resp, burst, rd, session, mgr, ev, srv>>

\* The version parameters of a request: behind, equal to and ahead of the room.
PollVersions == {Version - 1, Version, Version + 1}

\* One step of the helper goroutine of request w.
GoStep(w) == GoEnter(w) \/ GoWait(w)

\* One step of the handler of request w.
HandlerStep(w) == PollFast(w) \/ SelectDone(w) \/ SelectCtx(w) \/ AfterDone(w)

\* A direct call of Room.GetProgress (the immediate path of the handler
\* without the request around it).
Progress ==
    /\ lockHolder = NoOne
    /\ \E snap \in GetProgress : ret' = Return("Progress", NoOne, OK, snap)
    /\ UNCHANGED <<roomVars, now, lockHolder, pollVars, burst, rd, session, mgr, ev, srv>>

\* --------------------------------------------- game.NewGame, GameSession

ErrMaxRounds == "max rounds must be positive"

ErrEmptyList == "word list cannot be empty"

ErrNoValidWords == "no valid words in word list"

\* NewGame: the words of the list that pass ValidateWord once trimmed, in
\* upper case.
RECURSIVE ValidWords(_)
ValidWords(wordList) ==
    IF wordList = <<>> THEN <<>>
    ELSE LET word == TrimSpace(Head(wordList))
         IN  (IF ValidateWord(word) THEN <<ToUpper(word)>> ELSE <<>>)
                 \o ValidWords(Tail(wordList))

\* NewGame: the error it returns ("ok" for none).
NewGameErr(maxRounds, wordList) ==
    IF maxRounds <= 0 THEN ErrMaxRounds
    ELSE IF Len(wordList) = 0 THEN ErrEmptyList
    ELSE IF Len(ValidWords(wordList)) = 0 THEN ErrNoValidWords
    ELSE OK

\* NewGame: the game it returns when rand.Intn yields the index i - 1.
NewGame(maxRounds, wordList, i) ==
    [Answer |-> ValidWords(wordList)[i], MaxRounds |-> maxRounds,
     CurrentRound |-> 0, History |-> <<>>, Status |-> "InProgress"]

\* Server.HandleNewGame: a game from the configuration; a new session under
\* the next id when NewGame gives one.
HandleNewGame(maxRounds, wordList) ==
    /\ IF NewGameErr(maxRounds, wordList) # OK
       THEN session' = [session EXCEPT
                           !.ret = SessionReturn("NewGame",
                                       NewGameErr(maxRounds, wordList), NilGame)]
       ELSE /\ session.idCounter < MaxSessions
            /\ \E i \in 1..Len(ValidWords(wordList)) :
                  LET g == NewGame(maxRounds, wordList, i)
                  IN  session' = [idCounter |-> session.idCounter + 1,
                                  ID |-> ToString(session.idCounter + 1),
                                  Game |-> g,
                                  History |-> <<>>,
                                  ret |-> SessionReturn("NewGame", OK, g)]
    /\ UNCHANGED <<roomVars, now, ret, lockHolder, pollVars, burst, rd, mgr, ev, srv>>

\* Mutant of SessionResponse: the answer goes with every response.
SessionResponseAnswerAlways(g, result) ==
    [Guess |-> result.Guess,
     Results |-> ConvertToAPIResults(result),
     GameOver |-> g.Status # "InProgress",
     CurrentRound |-> g.CurrentRound,
     MaxRounds |-> g.MaxRounds,
     GameStatus |-> CASE g.Status = "Won" -> "won"
                      [] g.Status = "Lost" -> "lost"
                      [] OTHER -> "in_progress",
     Answer |-> g.Answer]

\* GameSession.MakeGuess: the api.GuessResponse built from the game after
\* the guess; the answer goes with it once the game is over.
SessionResponse(g, result) ==
    [Guess |-> result.Guess,
     Results |-> ConvertToAPIResults(result),
     GameOver |-> g.Status # "InProgress",
     CurrentRound |-> g.CurrentRound,
     MaxRounds |-> g.MaxRounds,
     GameStatus |-> CASE g.Status = "Won" -> "won"
                      [] g.Status = "Lost" -> "lost"
                      [] OTHER -> "in_progress",
     Answer |-> IF g.Status \in {"Won", "Lost"} THEN g.Answer ELSE <<>>]

\* GameSession.MakeGuess, under the session's lock from start to end.
SessionMakeGuess(raw) ==
    /\ session.Game # NilGame
    /\ IF GameGuessErr(session.Game, raw) # OK
       THEN session' = [session EXCEPT
                           !.ret = SessionReturn("Guess",
                                       GameGuessErr(session.Game, raw), NoResp)]
       ELSE LET g == GameAfterGuess(session.Game, raw)
                response == SessionResponse(g, GameGuessResult(session.Game, raw))
            IN  session' = [session EXCEPT
                               !.Game = g,
                               !.History = Append(@, response),
                               !.ret = SessionReturn("Guess", OK, response)]
    /\ UNCHANGED <<roomVars, now, ret, lockHolder, pollVars, burst, rd, mgr, ev, srv>>

\* GameSession.GetStatus, under the session's read lock.
SessionGetStatus ==
    /\ session.Game # NilGame
    /\ session' = [session EXCEPT
                      !.ret = SessionReturn("Status", OK,
                          [GameID |-> session.ID,
                           CurrentRound |-> session.Game.CurrentRound,
                           MaxRounds |-> session.Game.MaxRounds,
                           History |-> session.History,
                           GameStatus |-> CASE session.Game.Status = "Won" -> "won"
                                            [] session.Game.Status = "Lost" -> "lost"
                                            [] OTHER -> "in_progress",
                           Answer |-> IF session.Game.Status \in {"Won", "Lost"}
                                      THEN session.Game.Answer ELSE <<>>])]
    /\ UNCHANGED <<roomVars, now, ret, lockHolder, pollVars, burst, rd, mgr, ev, srv>>

\* ------------------------------------- RoomManager.CreateRoom, GetRoom

\* The run-time panic of an index expression out of range.
PanicIndex == "panic: runtime error: index out of range"

\* game.GetRandomInt(n): an index of a list of n > 0 elements.
GetRandomInt(n) == 0..(n - 1)

\* Server.HandleCreateRoom: the maxPlayers it passes for the request's value.
DefaultMaxPlayers(req) == IF req = 0 THEN 4 ELSE req

\* CreateRoom before it takes the manager's lock: the answer is selected
\* from the word list; the index expression panics on an empty list.
CreateRoomSelect(c, maxPlayers, maxRounds, wordList) ==
    /\ mgr.calls[c].pc = "idle"
    /\ mgr.idCounter
         + Cardinality({d \in Creators : mgr.calls[d].pc = "selected"}) < MaxRooms
    /\ LET call == [pc |-> "idle", maxPlayers |-> maxPlayers,
                    maxRounds |-> maxRounds, wordList |-> wordList,
                    answer |-> <<>>, err |-> PanicIndex, id |-> ""]
       IN  IF Len(wordList) = 0
           THEN mgr' = [mgr EXCEPT !.calls[c] = call]
           ELSE \E i \in GetRandomInt(Len(wordList)) :
                   mgr' = [mgr EXCEPT
                              !.calls[c] = [call EXCEPT !.pc = "selected",
                                                        !.answer = wordList[i + 1],
                                                        !.err = "none"]]
    /\ UNCHANGED <<roomVars, now, ret, lockHolder, pollVars, burst, rd, session, ev, srv>>

\* Mutant of StoreRoom: the map is made anew for the room.
StoreRoomAlone(rooms, id, room) == [k \in {id} |-> room]

\* rm.rooms[roomID] = room.
StoreRoom(rooms, id, room) ==
    [k \in DOMAIN rooms \cup {id} |-> IF k = id THEN room ELSE rooms[k]]

\* CreateRoom under the manager's lock: the next id, the room with its host
\* as the only player, the room registered.
CreateRoomLocked(c) ==
    /\ mgr.calls[c].pc = "selected"
    /\ LET call == mgr.calls[c]
           roomID == ToString(mgr.idCounter + 1)
           room == [ID |-> roomID, Host |-> c, Answer |-> call.answer,
                    MaxRounds |-> call.maxRounds,
                    MaxPlayers |-> NormMaxPlayers(call.maxPlayers),
                    Status |-> "waiting", PlayerOrder |-> <<c>>, Version |-> 0]
       IN  mgr' = [mgr EXCEPT
                      !.idCounter = @ + 1,
                      !.rooms = StoreRoom(@, roomID, room),
                      !.calls[c] = [call EXCEPT !.pc = "idle", !.err = OK,
                                                !.id = roomID]]
    /\ UNCHANGED <<roomVars, now, ret, lockHolder, pollVars, burst, rd, session, ev, srv>>

\* Server.HandleCreateRoom for a request's max_players: the call of
\* CreateRoom up to the manager's lock.
HandleCreateRoom(c, req, maxRounds, wordList) ==
    CreateRoomSelect(c, DefaultMaxPlayers(req), maxRounds, wordList)

\* RoomManager.GetRoom: the room and whether it exists.
GetRoom(rooms, id) ==
    IF id \in DOMAIN rooms
    THEN [id |-> id, room |-> rooms[id], exists |-> TRUE]
    ELSE [id |-> id, room |-> NilRoom, exists |-> FALSE]

GetRoomCall(id) ==
    /\ mgr' = [mgr EXCEPT !.got = GetRoom(mgr.rooms, id)]
    /\ UNCHANGED <<roomVars, now, ret, lockHolder, pollVars, burst, rd, session, ev, srv>>

\* ------------------------- RoomManager.ListRooms, Server.HandleJoinRoom

\* RoomManager.ListRooms on the room: room.Status is compared with
\* RoomWaiting under rm.mu alone.  Room.mu is not taken, so the step does
\* not wait for the lock's holder; the calls that write Room.Status are
\* single steps here, so the read sees the value before or after them.
ListRooms ==
    /\ srv' = [srv EXCEPT !.op = "ListRooms", !.listed = (Status = "waiting")]
    /\ UNCHANGED <<roomVars, now, ret, lockHolder, pollVars, burst, rd, session, mgr, ev>>

\* HandleJoinRoom once its room.JoinRoom call has returned nil:
\* room.GetStatus(), under the room's read lock, for the player list.
HandleJoinStatus ==
    /\ srv.join.pc = "idle"
    /\ ret.op = "Join"
    /\ ret.err = OK
    /\ srv.join.seen # Version
    /\ lockHolder = NoOne
    /\ srv' = [srv EXCEPT !.op = "GetStatus",
                          !.join = [pc |-> "respond", pid |-> ret.pid,
                                    seen |-> Version, players |-> PlayerOrder,
                                    isHost |-> FALSE]]
    /\ UNCHANGED <<roomVars, now, ret, lockHolder, pollVars, burst, rd, session, mgr, ev>>

\* HandleJoinRoom builds its response: IsHost is playerID == room.Host, read
\* after GetStatus has returned and with no lock.
HandleJoinRespond ==
    /\ srv.join.pc = "respond"
    /\ srv' = [srv EXCEPT !.op = "IsHost",
                          !.join.pc = "idle",
                          !.join.isHost = (srv.join.pid = Host)]
    /\ UNCHANGED <<roomVars, now, ret, lockHolder, pollVars, burst, rd, session, mgr, ev>>

\* ------------------------------------------------- a call of EvaluateGuess

\* EvaluateGuess(ev.guess, ev.answer) is called and its statuses kept.
Evaluate ==
    /\ ev.guess # <<>>
    /\ ev.result = <<>>
    /\ ev' = [ev EXCEPT !.result = EvaluateGuess(ev.guess, ev.answer).Statuses]
    /\ UNCHANGED <<roomVars, now, ret, lockHolder, pollVars, burst, rd, session, mgr, srv>>

\* ---------------------------------------------------------- specifications

\* The calls on the room, for player ids `ids` and raw guesses `raws`, issued
\* while Room.Version is below `cap`.
RoomCalls(ids, raws, cap) ==
    \/ Version < cap /\ \E p \in ids : JoinRoom(p)
    \/ Version < cap /\ \E p \in ids : LeaveRoom(p)
    \/ Version < cap /\ \E p \in ids : StartGame(p)
    \/ Version < cap /\ \E p \in ids, raw \in raws : MakeGuess(p, raw)

\* The steps of the long-poll request w.
PollNext(w) ==
    \/ \E v \in PollVersions : PollBegin(w, v)
    \/ PollFast(w)
    \/ GoEnter(w)
    \/ GoWait(w)
    \/ SelectDone(w)
    \/ SelectCtx(w)
    \/ AfterDone(w)
    \/ Timeout(w)

\* The room under every call, with direct Progress and Status reads.
Next ==
    \/ RoomCalls(Ids, GuessInputs, MaxVersion)
    \/ GetStatus
    \/ Progress
    \/ Tick

Spec == Init /\ [][Next]_vars

\* The long-poll requests against a room of two players.  The helper
\* goroutines and the handlers are scheduled fairly (every runnable
\* goroutine of the Go runtime eventually runs); calls on the room and the
\* arrival of requests are not forced.
PollIds == {"p1", "p2"}

PollGuesses == {APPLE, PAPAL}

PollInit == Init /\ MaxPlayers = NormMaxPlayers(2)

PollSpecNext ==
    \/ RoomCalls(PollIds, PollGuesses, PollMaxVersion)
    \/ \E w \in Waiters : PollNext(w)

PollFairness ==
    \A w \in Waiters : WF_vars(GoStep(w)) /\ WF_vars(HandlerStep(w))

PollSpec == PollInit /\ [][PollSpecNext]_vars /\ PollFairness

\* A burst of concurrent Join calls with distinct ids on a waiting room:
\* freshly created (the host alone), emptied by the host's Leave, or holding
\* a second player already.
BurstInitRoom ==
    \/ InitRoom /\ ret = Return("CreateRoom", HostId, OK, NoResp)
    \/ /\ Host = HostId
       /\ Answer \in {WordList[i] : i \in 1..Len(WordList)}
       /\ MaxPlayers \in {NormMaxPlayers(req) : req \in ReqMaxPlayers}
       /\ Status = "waiting"
       /\ Players = [q \in {} |-> NewPlayer(q)]
       /\ PlayerOrder = <<>>
       /\ Version = 1
       /\ ret = Return("Leave", HostId, OK, NoResp)
    \/ /\ Host = HostId
       /\ Answer \in {WordList[i] : i \in 1..Len(WordList)}
       /\ MaxPlayers \in {NormMaxPlayers(req) : req \in ReqMaxPlayers} \ {1}
       /\ Status = "waiting"
       /\ Players = [q \in {HostId, "p2"} |-> NewPlayer(q)]
       /\ PlayerOrder = <<HostId, "p2">>
       /\ Version = 1
       /\ ret = Return("Join", "p2", OK, NoResp)

BurstInit ==
    /\ BurstInitRoom
    /\ InitPoll
    /\ InitRead
    /\ InitSession
    /\ InitManager
    /\ InitScore
    /\ InitServer
    /\ now = 1
    /\ lockHolder = NoOne
    /\ burst = [before |-> Cardinality(DOMAIN Players),
                result |-> [j \in BurstIds |-> "pending"]]

\* One of the concurrent Join calls runs (each takes the room's lock, so
\* the calls run one after the other in some order).
BurstJoin(j) ==
    /\ burst.result[j] = "pending"
    /\ JoinRoomBody(j)
    /\ burst' = [burst EXCEPT !.result[j] = ret'.err]
    /\ UNCHANGED <<now, lockHolder, hpc, lastVersion, currentVersion, timedOut, clientGone, done, resp, rd, session, mgr, ev, srv>>

BurstNext == \E j \in BurstIds : BurstJoin(j)

BurstSpec == BurstInit /\ [][BurstNext]_vars

\* A client that calls Room.GetProgress again and again, each call in two
\* steps, while two players use the room.
SnapNext ==
    \/ RoomCalls(PollIds, PollGuesses, SnapMaxVersion)
    \/ ReadPlayers
    \/ ReadReturn
    \/ Tick

SnapSpec == PollInit /\ [][SnapNext]_vars

\* calculateRanking as a function of the final player data: a finished room
\* of three players whose status, rounds used and finish time are drawn
\* freely (the ranking reads nothing else of a player), read by
\* GetProgress under every iteration order of the Players map.
RankIds == {"A", "B", "C"}

RankRounds == {3, 4, 6}

RankTimes == {1, 5, 10}

RankData ==
    [st : {"won", "lost"}, rounds : RankRounds, t : RankTimes]
    \cup [st : {"playing"}, rounds : RankRounds \cup {0}, t : {0}]

RankPlayer(id, d) ==
    [ID |-> id, Status |-> d.st,
     Game |-> [NewGameWithAnswer(MaxRounds, APPLE) EXCEPT !.CurrentRound = d.rounds],
     History |-> <<>>, FinishTime |-> d.t]

RankInit ==
    /\ Host = "A"
    /\ Answer = APPLE
    /\ MaxPlayers = NormMaxPlayers(0)
    /\ Status = "finished"
    /\ \E f \in [RankIds -> RankData] :
          /\ \/ \E id \in RankIds : f[id].st = "won"
             \/ \A id \in RankIds : f[id].st # "playing"
          /\ Players = [id \in RankIds |-> RankPlayer(id, f[id])]
    /\ PlayerOrder = <<"A", "B", "C">>
    /\ Version = MaxVersion
    /\ InitPoll
    /\ InitBurst
    /\ InitRead
    /\ InitSession
    /\ InitManager
    /\ InitScore
    /\ InitServer
    /\ now = 1
    /\ ret = Return("Guess", "A", OK, NoResp)
    /\ lockHolder = NoOne

RankNext == ReadPlayers \/ ReadReturn

RankSpec == RankInit /\ [][RankNext]_vars

\* The long-poll requests with clients that may disconnect: few mutating
\* calls reach the room, requests arrive level with the room's version or
\* behind it, and each request's deadline may expire or its client may go
\* away.  Scheduling is fair as in PollSpec.
CancelGuesses == {APPLE}

CancelBegin(w) == \E v \in {Version - 1, Version} : PollBegin(w, v)

CancelNext ==
    \/ RoomCalls(PollIds, CancelGuesses, CancelMaxVersion)
    \/ \E w \in Waiters : CancelBegin(w)
    \/ \E w \in Waiters : GoStep(w)
    \/ \E w \in Waiters : HandlerStep(w)
    \/ \E w \in Waiters : Timeout(w)
    \/ \E w \in Waiters : ClientCancel(w)

CancelSpec == PollInit /\ [][CancelNext]_vars /\ PollFairness

\* The long-poll requests that arrive level with the room's version or
\* behind it, with deadlines and no disconnects, while the room goes through
\* join, start and a guess.  Scheduling is fair as in PollSpec.
WakeNext ==
    \/ RoomCalls(PollIds, PollGuesses, PollMaxVersion)
    \/ \E w \in Waiters : CancelBegin(w)
    \/ \E w \in Waiters : GoStep(w)
    \/ \E w \in Waiters : HandlerStep(w)
    \/ \E w \in Waiters : Timeout(w)

WakeSpec == PollInit /\ [][WakeNext]_vars /\ PollFairness

\* The single-player server (new games, guesses, status reads) next to a
\* started room whose host is guessing.
EAPL == <<"C3", "A9", "a", "p", "l">>

GameRounds == {0, 1, MaxRounds}

GameWordLists ==
    { <<>>,
      <<<<"A", "P", "P", "L">>, <<"A", "P", "1", "L", "E">>>>,
      <<EAPL>>,
      <<<<"a", "p", "p", "l", "e", " ">>, <<"A", "P", "P", "L">>, PAPAL>> }

GameGuesses ==
    { APPLE,
      <<" ", "a", "p", "p", "l", "e">>,
      PAPAL,
      <<"A", "P", "P", "L">>,
      <<"A", "P", "1", "L", "E">>,
      EAPL }

GameRoomGuesses == {APPLE, PAPAL}

GameInit ==
    /\ Host = HostId
    /\ Answer = WordList[1]
    /\ MaxPlayers = NormMaxPlayers(2)
    /\ Status = "playing"
    /\ Players = [q \in PollIds |->
                     [NewPlayer(q) EXCEPT
                         !.Game = NewGameWithAnswer(MaxRounds, Answer),
                         !.Status = "playing"]]
    /\ PlayerOrder = <<"p1", "p2">>
    /\ Version = 2
    /\ InitPoll
    /\ InitBurst
    /\ InitRead
    /\ InitSession
    /\ InitManager
    /\ InitScore
    /\ InitServer
    /\ now = 1
    /\ ret = Return("Start", HostId, OK, NoResp)
    /\ lockHolder = NoOne

GameNext ==
    \/ \E maxRounds \in GameRounds, wordList \in GameWordLists :
          HandleNewGame(maxRounds, wordList)
    \/ \E raw \in GameGuesses : SessionMakeGuess(raw)
    \/ SessionGetStatus
    \/ \E raw \in GameRoomGuesses : MakeGuess(HostId, raw)

GameSpec == GameInit /\ [][GameNext]_vars

\* Concurrent CreateRoom calls on one manager, with GetRoom reads.
RegMaxPlayers == {-1, 0, 1, 9}

RegRounds == {0, 1}

RegWordLists == {<<>>, <<APPLE>>}

RegIds == {ToString(k) : k \in 1..(MaxRooms + 1)}

RegNext ==
    \/ \E c \in Creators, req \in RegMaxPlayers, maxRounds \in RegRounds,
          wordList \in RegWordLists :
          HandleCreateRoom(c, req, maxRounds, wordList)
    \/ \E c \in Creators : CreateRoomLocked(c)
    \/ \E id \in RegIds : GetRoomCall(id)

RegSpec == PollInit /\ [][RegNext]_vars

\* EvaluateGuess on every pair of five-letter words over the first
\* ScoreLetters letters of ScoreAlphabet, and on the worked examples.
ScoreAlphabet == <<"A", "E", "S", "P", "D", "R", "G", "L">>

SPEED == <<"S", "P", "E", "E", "D">>

ERASE == <<"E", "R", "A", "S", "E">>

GEESE == <<"G", "E", "E", "S", "E">>

ScoreWords == [1..5 -> {ScoreAlphabet[i] : i \in 1..ScoreLetters}]

ScorePairs ==
    (ScoreWords \X ScoreWords) \cup {<<SPEED, ERASE>>, <<GEESE, ERASE>>}

ScoreInit ==
    /\ InitRoom
    /\ MaxPlayers = NormMaxPlayers(2)
    /\ InitPoll
    /\ InitBurst
    /\ InitRead
    /\ InitSession
    /\ InitManager
    /\ InitServer
    /\ \E pair \in ScorePairs :
          ev = [guess |-> pair[1], answer |-> pair[2], result |-> <<>>]
    /\ now = 1
    /\ ret = Return("CreateRoom", HostId, OK, NoResp)
    /\ lockHolder = NoOne

ScoreNext == Evaluate

ScoreSpec == ScoreInit /\ [][ScoreNext]_vars

\* The room under every kind of call, accepted or rejected, while one
\* long-poll request waits on it.
FrameGuesses == {APPLE, <<"A", "P", "1", "L", "E">>}

FrameNext ==
    \/ RoomCalls(PollIds, FrameGuesses, FrameMaxVersion)
    \/ PollNext("w1")

FrameSpec == PollInit /\ [][FrameNext]_vars

\* The room under its calls and one long-poll request, with the server's
\* room listing and join handler reading the room.
RaceNext ==
    \/ FrameNext
    \/ ListRooms
    \/ HandleJoinStatus
    \/ HandleJoinRespond

RaceSpec == PollInit /\ [][RaceNext]_vars

\* ------------------------------------------------------------------ claims

\* A step that is one of the four mutating calls on the room (the call is
\* the one ret' names).
IsJoin == ret'.op = "Join" /\ JoinRoom(ret'.pid)

IsLeave == ret'.op = "Leave" /\ LeaveRoom(ret'.pid)

IsStart == ret'.op = "Start" /\ StartGame(ret'.pid)

IsGuess == ret'.op = "Guess" /\ \E raw \in GuessInputs : MakeGuess(ret'.pid, raw)

IsMutatingCall == IsJoin \/ IsLeave \/ IsStart \/ IsGuess

Count(S) == Cardinality(S)

Terminal(pl) == pl.Status \in {"won", "lost"}

\* C1: Room.Version starts at 0; a step that is an accepted Join, Leave,
\* Start or Guess raises it by exactly 1; a rejected call, and every other
\* step (Progress, Status, the clock), leaves it unchanged.
C1_VersionCountsAcceptedCalls ==
    /\ Version = 0
    /\ [][IF IsMutatingCall /\ ret'.err = OK
            THEN Version' = Version + 1
            ELSE Version' = Version]_vars

\* C1 witness: a call has been rejected after three calls were accepted.
C1_Witness ==
    /\ Version >= 3
    /\ ret.op = "Guess"
    /\ ret.err = ErrAlreadyFinished

\* C2: Room.Status changes only waiting -> playing, by an accepted Start
\* on a room of at least 2 players, and playing -> finished, by an accepted
\* Guess that leaves its player won or every player won or lost; finished
\* is never left.
C2_StatusTransitions ==
    [][/\ Status' # Status =>
            \/ /\ Status = "waiting"
               /\ Status' = "playing"
               /\ IsStart
               /\ ret'.err = OK
               /\ Count(DOMAIN Players) >= 2
            \/ /\ Status = "playing"
               /\ Status' = "finished"
               /\ IsGuess
               /\ ret'.err = OK
               /\ \/ Players'[ret'.pid].Status = "won"
                  \/ \A q \in DOMAIN Players' : Terminal(Players'[q])
       /\ Status = "finished" => Status' = "finished"]_vars

\* C2 witness: a race that ended with every player lost, after which a
\* player left the finished room.
C2_Witness ==
    /\ Status = "finished"
    /\ ret.op = "Leave"
    /\ ret.err = OK
    /\ Count(DOMAIN Players) >= 1
    /\ \A q \in DOMAIN Players : Players[q].Status = "lost"

\* C3 (the claim as stated, for a room that still has players): if a player
\* is won, or the room has been started and every player still in it is won
\* or lost, then the room is finished.
C3_FinishedWhenNobodyPlays ==
    (/\ DOMAIN Players # {}
     /\ \/ \E q \in DOMAIN Players : Players[q].Status = "won"
        \/ /\ Status # "waiting"
           /\ \A q \in DOMAIN Players : Terminal(Players[q]))
    => Status = "finished"

\* C4: a Guess that makes a player won makes the room finished in the same
\* step; and once a player is won or the room is finished, every Guess, by
\* any player, returns "game not in progress" and changes no player.
C4_WinEndsRace ==
    [][IsGuess =>
        /\ (/\ ret'.err = OK
            /\ Players'[ret'.pid].Status = "won") => Status' = "finished"
        /\ (\/ Status = "finished"
            \/ \E q \in DOMAIN Players : Players[q].Status = "won")
           => /\ ret'.err = ErrNotInProgress
              /\ Players' = Players
              /\ Status' = Status]_vars

\* C4 witness: after a win, the Guess of a player whose own game is still in
\* progress has been rejected with "game not in progress".
C4_Witness ==
    /\ ret.op = "Guess"
    /\ ret.err = ErrNotInProgress
    /\ ret.pid \in DOMAIN Players
    /\ Players[ret.pid].Status = "playing"
    /\ Players[ret.pid].Game.Status = "InProgress"
    /\ \E q \in DOMAIN Players : Players[q].Status = "won"

\* The calls of the burst that returned `err`.
BurstWith(err) == {j \in BurstIds : burst.result[j] = err}

BurstDone == BurstWith("pending") = {}

\* C5 (the claim as stated): once all N concurrent Join calls on a waiting
\* room with MaxPlayers = M have returned, exactly M succeeded and the
\* others returned "room is full".
C5_ExactlyMaxPlayersJoin ==
    BurstDone =>
        /\ Count(BurstWith(OK)) = MaxPlayers
        /\ Count(BurstWith(ErrRoomFull)) = Count(BurstIds) - MaxPlayers

\* C5 (amended): once all N concurrent Join calls have returned, exactly
\* M - P succeeded, P being the number of players the room held when the
\* calls began (1, the host, for a room just created), and every other call
\* returned "room is full"; the room then holds exactly M players.
C5_RemainingPlacesJoin ==
    BurstDone =>
        /\ Count(BurstWith(OK)) = MaxPlayers - burst.before
        /\ Count(BurstWith(ErrRoomFull)) = Count(BurstIds) - (MaxPlayers - burst.before)
        /\ Count(DOMAIN Players) = MaxPlayers
        /\ BurstWith(OK) \subseteq DOMAIN Players

\* C5 witness: on a room just created with MaxPlayers = 3, all calls have
\* returned: two succeeded and three found the room full.
C5_Witness ==
    /\ BurstDone
    /\ burst.before = 1
    /\ MaxPlayers = 3
    /\ Count(BurstWith(OK)) = 2
    /\ Count(BurstWith(ErrRoomFull)) = 3

\* C6: Join(p) succeeds exactly when the room is waiting, holds fewer than
\* MaxPlayers players and does not hold p; otherwise it fails with "not
\* accepting", "room is full" or "player already in room".  On success p
\* is a new waiting player without a game, appended to the end of
\* PlayerOrder, and nobody else is touched.  The number of players never
\* exceeds MaxPlayers.
C6_JoinContract ==
    /\ [](Count(DOMAIN Players) <= MaxPlayers)
    /\ [][IsJoin =>
            LET p == ret'.pid
                joinable == /\ Status = "waiting"
                            /\ Count(DOMAIN Players) < MaxPlayers
                            /\ p \notin DOMAIN Players
            IN  /\ ret'.err = OK <=> joinable
                /\ ~joinable => ret'.err \in {ErrNotAccepting, ErrRoomFull, ErrDuplicate}
                /\ joinable =>
                      /\ DOMAIN Players' = DOMAIN Players \cup {p}
                      /\ Players'[p].Status = "waiting"
                      /\ Players'[p].Game = NilGame
                      /\ \A q \in DOMAIN Players : Players'[q] = Players[q]
                      /\ PlayerOrder' = Append(PlayerOrder, p)]_vars

\* C6 witness: an accepted Join has filled a room of three.
C6_Witness ==
    /\ ret.op = "Join"
    /\ ret.err = OK
    /\ MaxPlayers = 3
    /\ Count(DOMAIN Players) = 3
    /\ PlayerOrder[3] = ret.pid

\* A request that found Room.Version equal to its lastVersion on arrival.
ArrivedEqual(w) == currentVersion[w] = lastVersion[w]

\* The request has been answered with a Progress response.
Answered(w) == hpc[w] = "done" /\ resp[w] # NoResp

\* C7, its safety half: a request that arrives with lastVersion below
\* Room.Version takes the immediate path (no helper goroutine, no wait); a
\* request that arrived with lastVersion equal to Room.Version is answered
\* only once the version has passed lastVersion or its deadline has
\* expired, and the answer is the snapshot of the version then current.
C7_NoEarlyResponse ==
    [][\A w \in Waiters :
        /\ (hpc[w] = "idle" /\ hpc'[w] # "idle" /\ lastVersion'[w] < Version)
           => (hpc'[w] = "fast" /\ gpc'[w] = "idle")
        /\ (resp'[w] # resp[w] /\ ArrivedEqual(w))
           => /\ Version > lastVersion[w] \/ timedOut[w]
              /\ resp'[w].Version = Version]_vars

\* C7 (the claim as stated): the safety half, and: a request on the
\* immediate path is answered; a request that arrived with lastVersion
\* equal to Room.Version is answered once a mutation has been accepted or
\* its deadline has expired.
C7_LongPollContract ==
    /\ C7_NoEarlyResponse
    /\ \A w \in Waiters : (hpc[w] = "fast") ~> Answered(w)
    /\ \A w \in Waiters :
          (/\ hpc[w] = "select"
           /\ ArrivedEqual(w)
           /\ Version > lastVersion[w] \/ timedOut[w]) ~> Answered(w)

\* C8 (the claim as stated): a response delivered before the request's
\* deadline has expired carries a version greater than lastVersion.
C8_ResponseVersionAdvances ==
    \A w \in Waiters :
        (Answered(w) /\ ~timedOut[w]) => resp[w].Version > lastVersion[w]

\* C9: an accepted Join, Leave, Start or Guess leaves no helper goroutine
\* parked on the condition variable; and every request that arrived with
\* lastVersion equal to Room.Version and is still waiting when the version
\* has passed its lastVersion is eventually answered with a snapshot whose
\* version exceeds lastVersion.
C9_MutationWakesAllWaiters ==
    /\ [][(IsMutatingCall /\ ret'.err = OK) =>
            \A w \in Waiters : gpc'[w] # "parked"]_vars
    /\ \A w \in Waiters :
          (/\ hpc[w] \in {"select", "waitdone"}
           /\ ArrivedEqual(w)
           /\ Version > lastVersion[w])
          ~> (Answered(w) /\ resp[w].Version > lastVersion[w])

\* C9 witness: both requests waited on the same version, neither deadline
\* has expired, and one accepted mutation has woken both helper goroutines.
C9_Witness ==
    \A w \in Waiters :
        /\ hpc[w] = "select"
        /\ gpc[w] = "woken"
        /\ ArrivedEqual(w)
        /\ ~timedOut[w]
        /\ Version = lastVersion[w] + 1

\* C10 (the claim as stated): a request whose deadline has expired is
\* eventually answered with a Progress response, whether or not the room
\* is mutated again.
C10_TimeoutCompletes ==
    \A w \in Waiters : timedOut[w] ~> Answered(w)

\* C11 (the claim as stated): once the client of a long-poll request has
\* disconnected before the request's deadline, the helper goroutine
\* eventually exits and the handler eventually returns; and a handler that returns on the ctx.Done() path
\* for a disconnected client has written no response.
C11_DisconnectAbandonsWait ==
    /\ [][\A w \in Waiters :
            (hpc[w] = "waitdone" /\ hpc'[w] = "done" /\ clientGone[w])
            => resp'[w] = NoResp]_vars
    /\ \A w \in Waiters :
          (clientGone[w] /\ ~timedOut[w]) ~> (hpc[w] = "done" /\ gpc[w] = "exit")

\* C12: the helper goroutine of a request that arrived level with the room
\* exits only when Room.Version has passed lastVersion or the request's own
\* context is done, whoever woke it; and a response written while the
\* request's own context is not done (deadline not expired, client still
\* there) carries a version above lastVersion.
C12_WakeUpRechecksVersion ==
    [][\A w \in Waiters :
        /\ (gpc[w] # "exit" /\ gpc'[w] = "exit" /\ ArrivedEqual(w))
           => (Version > lastVersion[w] \/ CtxDone(w))
        /\ (resp'[w] # resp[w] /\ ArrivedEqual(w) /\ ~CtxDone(w))
           => /\ Version > lastVersion[w]
              /\ resp'[w].Version > lastVersion[w]]_vars

\* C12 witness: the Broadcast of w1's handler, issued for w1's disconnected
\* client, has woken the goroutine of w2 although the room has not changed
\* and w2's own context is not done.
C12_Witness ==
    /\ hpc["w1"] = "waitdone"
    /\ clientGone["w1"]
    /\ hpc["w2"] = "select"
    /\ gpc["w2"] = "woken"
    /\ ArrivedEqual("w2")
    /\ Version = lastVersion["w2"]
    /\ ~CtxDone("w2")

\* The player list GetProgress builds from the room as it is now.
CurrentPlayers == [k \in 1..Len(PlayerOrder) |-> PlayerProgress(PlayerOrder[k])]

\* A step in which a GetProgress call returns its snapshot.
SnapshotReturned == rd.pc = "read" /\ rd'.pc = "idle"

StatusRank(st) == CASE st = "waiting" -> 0 [] st = "playing" -> 1 [] OTHER -> 2

\* t starts with s.
IsPrefix(s, t) == Len(s) <= Len(t) /\ SubSeq(t, 1, Len(s)) = s

\* Snapshot s2 reflects everything snapshot s1 reflected: the room status
\* has not gone back and, for every player in both, the history has only
\* grown, the round has not dropped and a won or lost status has stayed.
Reflects(s1, s2) ==
    /\ StatusRank(s1.Status) <= StatusRank(s2.Status)
    /\ \A i \in 1..Len(s1.Players), j \in 1..Len(s2.Players) :
          s1.Players[i].PlayerID = s2.Players[j].PlayerID
          => /\ IsPrefix(s1.Players[i].History, s2.Players[j].History)
             /\ s1.Players[i].CurrentRound <= s2.Players[j].CurrentRound
             /\ s1.Players[i].Status \in {"won", "lost"}
                => s2.Players[j].Status = s1.Players[i].Status

\* C14, without the data computed by the ranking: of two snapshots given
\* one after the other to the same client, the later has a version at least
\* as high and reflects the earlier; with equal versions the two agree on
\* status, players and answer.
C14_LaterSnapshotReflectsEarlier ==
    [][(SnapshotReturned /\ rd.last # NoResp)
       => /\ rd.last.Version <= rd'.last.Version
          /\ Reflects(rd.last, rd'.last)
          /\ rd.last.Version = rd'.last.Version
             => /\ rd'.last.Status = rd.last.Status
                /\ rd'.last.Players = rd.last.Players
                /\ rd'.last.Answer = rd.last.Answer]_vars

\* C14 (the claim as stated): as above, and two snapshots with the same
\* version are identical, winner and ranking included.
C14_SnapshotsOrderedByVersion ==
    [][(SnapshotReturned /\ rd.last # NoResp)
       => /\ Reflects(rd.last, rd'.last)
          /\ rd.last.Version = rd'.last.Version => rd'.last = rd.last]_vars

\* The data of player id that the ranking is about.
HasWon(id) == Players[id].Status = "won"

RoundsUsed(id) == Players[id].Game.CurrentRound

FinishTime(id) == Players[id].FinishTime

\* The example of the specification: A(Won, 3 rounds, t=10), B(Won, 4
\* rounds, t=5), C(Lost, 6 rounds, t=1).
RankingExample ==
    /\ DOMAIN Players = {"A", "B", "C"}
    /\ HasWon("A") /\ RoundsUsed("A") = 3 /\ FinishTime("A") = 10
    /\ HasWon("B") /\ RoundsUsed("B") = 4 /\ FinishTime("B") = 5
    /\ Players["C"].Status = "lost" /\ RoundsUsed("C") = 6 /\ FinishTime("C") = 1

\* C15: in the ranking GetProgress returned for a finished room, every
\* player who won precedes every player who did not; of two winners the one
\* with fewer rounds comes first and, with equal rounds, the one who
\* finished later does not come first; the example ranks as [A, B, C]; and
\* the winner reported is the first entry of the ranking.
C15_WinnersFirstByRoundsThenTime ==
    (rd.last # NoResp /\ rd.last.Status = "finished")
    => LET r == rd.last.Ranking
       IN  /\ \A i, j \in 1..Len(r) :
                 i < j => /\ HasWon(r[j]) => HasWon(r[i])
                          /\ (HasWon(r[i]) /\ HasWon(r[j]))
                             => /\ RoundsUsed(r[i]) <= RoundsUsed(r[j])
                                /\ RoundsUsed(r[i]) = RoundsUsed(r[j])
                                   => FinishTime(r[i]) <= FinishTime(r[j])
           /\ RankingExample => r = <<"A", "B", "C">>
           /\ Len(r) > 0 /\ rd.last.Winner = r[1]

\* C15 witness: the example has been ranked.
C15_Witness ==
    /\ RankingExample
    /\ rd.last # NoResp
    /\ rd.last.Ranking = <<"A", "B", "C">>
    /\ rd.last.Winner = "A"

\* The last call on the room was GetProgress and it returned the snapshot
\* of a finished room (the room has not changed since).
RankedSnapshot == ret.op = "Progress" /\ ret.val.Status = "finished"

\* C16 (the claim as stated): in the ranking of a finished room, of two
\* players who have not won the one with more rounds used comes first and,
\* with equal rounds, the one who finished later does not come first.
C16_LosersByMoreRounds ==
    RankedSnapshot
    => LET r == ret.val.Ranking
       IN  \A i, j \in 1..Len(r) :
              (i < j /\ ~HasWon(r[i]) /\ ~HasWon(r[j]))
              => /\ RoundsUsed(r[i]) >= RoundsUsed(r[j])
                 /\ RoundsUsed(r[i]) = RoundsUsed(r[j])
                    => FinishTime(r[i]) <= FinishTime(r[j])

\* The order of player ids ("p1" < "p2" < "p3").
IdRank(id) == CASE id = "p1" -> 1 [] id = "p2" -> 2 [] OTHER -> 3

\* Two players the comparison of calculateRanking cannot tell apart.
Tied(a, b) ==
    /\ HasWon(a) = HasWon(b)
    /\ RoundsUsed(a) = RoundsUsed(b)
    /\ FinishTime(a) = FinishTime(b)

\* C17 (the claim as stated): the ranking of a finished room holds every
\* player id of the room once, tied players appear in the order of their
\* ids, and every evaluation of the ranking in the same room state returns
\* the same sequence.
C17_RankingDeterministic ==
    RankedSnapshot
    => LET r == ret.val.Ranking
       IN  /\ Len(r) = Cardinality(DOMAIN Players)
           /\ {r[i] : i \in 1..Len(r)} = DOMAIN Players
           /\ \A i, j \in 1..Len(r) :
                 (i < j /\ Tied(r[i], r[j])) => IdRank(r[i]) < IdRank(r[j])
           /\ \A snap \in GetProgress : snap.Ranking = r

\* The last call on the room was GetProgress (the room has not changed
\* since it returned).
SnapshotInHand == ret.op = "Progress"

FreshSession ==
    [Answer |-> Answer, MaxRounds |-> MaxRounds, CurrentRound |-> 0,
     History |-> <<>>, Status |-> "InProgress"]

\* C19: a Start call fails with NotHost unless the caller is the host, else
\* with AlreadyStarted unless the room is waiting, else with
\* NotEnoughPlayers unless the room has two players; a rejected Start
\* changes nothing; an accepted Start leaves the same players, each with a
\* fresh session and status playing, and the room playing; and a room that
\* has left waiting never returns to it, so no second Start is accepted.
C19_StartContract ==
    [][/\ IsStart =>
            /\ ret'.pid # Host => ret'.err = ErrNotHost
            /\ (ret'.pid = Host /\ Status # "waiting") => ret'.err = ErrAlreadyStarted
            /\ (ret'.pid = Host /\ Status = "waiting" /\ Count(DOMAIN Players) < 2)
               => ret'.err = ErrNotEnough
            /\ (ret'.pid = Host /\ Status = "waiting" /\ Count(DOMAIN Players) >= 2)
               => ret'.err = OK
            /\ ret'.err # OK => UNCHANGED roomVars
            /\ ret'.err = OK =>
                  /\ DOMAIN Players' = DOMAIN Players
                  /\ \A q \in DOMAIN Players :
                        /\ Players'[q].Game = FreshSession
                        /\ Players'[q].Status = "playing"
                        /\ Players'[q].History = <<>>
                  /\ Status' = "playing"
                  /\ UNCHANGED <<Host, Answer, MaxPlayers, PlayerOrder>>
       /\ Status # "waiting" => Status' # "waiting"]_vars

\* C19 witness: the host's Start has just been accepted in a room of three.
C19_Witness ==
    /\ ret.op = "Start"
    /\ ret.err = OK
    /\ ret.pid = Host
    /\ Count(DOMAIN Players) = 3
    /\ Status = "playing"
    /\ \A q \in DOMAIN Players : Players[q].Game = FreshSession

\* The order without the entries equal to p, the others in their order.
Without(order, p) == SelectSeq(order, LAMBDA x : x # p)

\* C20: a Leave call of a player who is not in the room fails with
\* PlayerNotInRoom and changes nothing; otherwise it succeeds, the player
\* is gone from Players and PlayerOrder, the other players and their
\* relative order are as before, and the host is the first entry of the new
\* PlayerOrder if the host left and players remain, and unchanged if
\* somebody else left.
C20_LeaveContract ==
    [][IsLeave =>
        LET p == ret'.pid
        IN  /\ p \notin DOMAIN Players
               => (ret'.err = ErrNotInRoom /\ UNCHANGED roomVars)
            /\ p \in DOMAIN Players
               => /\ ret'.err = OK
                  /\ DOMAIN Players' = DOMAIN Players \ {p}
                  /\ \A q \in DOMAIN Players' : Players'[q] = Players[q]
                  /\ PlayerOrder' = Without(PlayerOrder, p)
                  /\ (Host = p /\ DOMAIN Players' # {}) => Host' = PlayerOrder'[1]
                  /\ Host # p => Host' = Host
                  /\ UNCHANGED <<Answer, MaxPlayers, Status>>]_vars

\* C20 witness: the creator of a room of three has left and the player who
\* joined first after the creator is host.
C20_Witness ==
    /\ ret.op = "Leave"
    /\ ret.err = OK
    /\ ret.pid = HostId
    /\ Len(PlayerOrder) = 2
    /\ HostId \notin DOMAIN Players
    /\ Host = PlayerOrder[1]
    /\ Version = 3

\* The letters of which a single byte is a character.
AsciiLetters == UpperLetters \cup {"a", "e", "l", "p"}

\* The raw guess is a word of five letters once the blanks around it are
\* dropped.
FiveLetters(raw) ==
    LET w == TrimSpace(raw)
    IN  Len(w) = 5 /\ \A i \in 1..Len(w) : w[i] \in AsciiLetters

\* What the claim says of the Guess call of player p with the raw guess.
GuessChecksInOrder(p, raw) ==
    /\ Status # "playing" => ret'.err = ErrNotInProgress
    /\ (Status = "playing" /\ p \notin DOMAIN Players) => ret'.err = ErrPlayerNotFound
    /\ (Status = "playing" /\ p \in DOMAIN Players)
       => /\ Players[p].Status # "playing" => ret'.err = ErrAlreadyFinished
          /\ Players[p].Status = "playing"
             => /\ ret'.err = (IF Players[p].Game.Status # "InProgress" THEN ErrGameOver
                               ELSE IF ~FiveLetters(raw) THEN ErrInvalidWord
                               ELSE OK)
    /\ ret'.err # OK => UNCHANGED roomVars
    /\ ret'.err = OK
       => /\ Players'[p].Game.Status = "Won"
             => (Players'[p].Status = "won" /\ Players'[p].FinishTime = now)
          /\ Players'[p].Game.Status = "Lost"
             => (Players'[p].Status = "lost" /\ Players'[p].FinishTime = now)
          /\ Players'[p].Game.Status = "InProgress"
             => (Players'[p].Status = "playing"
                 /\ Players'[p].FinishTime = Players[p].FinishTime)

\* C21: a Guess call on the room fails with GameNotInProgress unless the
\* room is playing, else with PlayerNotInRoom if the player is not in the
\* room, else with AlreadyFinished if the player is not playing, else with
\* the error of the player's session, if any; a rejected call changes
\* nothing; and an accepted guess that ends the player's session as won or
\* lost sets the player's status to the same and records the finish time in
\* the same step.
C21_GuessChecksInOrder ==
    [][ret'.op = "Guess"
       => \A raw \in GuessInputs :
             MakeGuess(ret'.pid, raw) => GuessChecksInOrder(ret'.pid, raw)]_vars

\* C21 witness: a malformed guess of a playing player has been rejected in a
\* room where another player has already lost.
C21_Witness ==
    /\ ret.op = "Guess"
    /\ ret.err = ErrInvalidWord
    /\ Status = "playing"
    /\ Players[ret.pid].Status = "playing"
    /\ \E q \in DOMAIN Players : Players[q].Status = "lost"

\* A step that is an accepted guess on the single-player session.
SessionAccepted ==
    /\ session'.ret.op = "Guess"
    /\ session'.ret.err = OK
    /\ session'.History # session.History

\* The last element of a non-empty sequence.
Last(seq) == seq[Len(seq)]

GameInvariant(g) ==
    \/ g = NilGame
    \/ /\ Len(g.History) = g.CurrentRound
       /\ 0 <= g.CurrentRound
       /\ g.CurrentRound <= g.MaxRounds
       /\ g.Status = "Lost" => g.CurrentRound = g.MaxRounds

\* A game that is over stays as it ended.
StaysOver(g, h) == g.Status \in {"Won", "Lost"} => h.Status = g.Status

FiveLetterWord(raw) ==
    LET rs == Runes(TrimSpace(raw))
    IN  Len(rs) = 5 /\ \A i \in 1..Len(rs) : rs[i] \in Letters

\* C24: a guess on a single-player session that is not a word of five
\* letters, or that arrives when the game is Won or Lost, leaves the round
\* count, the history and the status as they were: an invalid guess never
\* consumes a round.
C24_InvalidGuessConsumesNoRound ==
    [][\A raw \in GameGuesses :
          (/\ SessionMakeGuess(raw)
           /\ \/ ~FiveLetterWord(raw)
              \/ session.Game.Status \in {"Won", "Lost"})
          => /\ session'.Game = session.Game
             /\ session'.History = session.History
             /\ session'.ret.err # OK]_vars

\* The list holds a word of five letters (blanks around it dropped).
HasValidWord(wordList) == \E i \in 1..Len(wordList) : FiveLetterWord(wordList[i])

\* The words of five letters of the list, in upper case.
ValidUpperWords(wordList) ==
    {ToUpper(TrimSpace(wordList[i])) :
        i \in {j \in 1..Len(wordList) : FiveLetterWord(wordList[j])}}

\* C29: NewGame returns an error and no game when maxRounds <= 0, when the
\* word list is empty or when it holds no word of five letters; otherwise
\* it returns a game on round 0 with an empty history, InProgress, with the
\* given maxRounds and an answer that is one of the words of five letters of
\* the list in upper case.
C29_NewGameContract ==
    [][\A maxRounds \in GameRounds, wordList \in GameWordLists :
          (session'.ret.op = "NewGame" /\ HandleNewGame(maxRounds, wordList))
          => IF maxRounds <= 0 \/ wordList = <<>> \/ ~HasValidWord(wordList)
             THEN /\ session'.ret.err # OK
                  /\ session'.ret.val = NilGame
                  /\ session'.Game = session.Game
             ELSE /\ session'.ret.err = OK
                  /\ session'.Game = session'.ret.val
                  /\ session'.Game.CurrentRound = 0
                  /\ session'.Game.History = <<>>
                  /\ session'.Game.Status = "InProgress"
                  /\ session'.Game.MaxRounds = maxRounds
                  /\ session'.Game.Answer \in ValidUpperWords(wordList)]_vars

\* The occurrences of the letter L in the five-letter word w.
CountIn(L, w) == Cardinality({i \in 1..5 : w[i] = L})

\* The two-pass scoring, position by position: Hit on an exact match;
\* otherwise Present while the occurrences of the letter in the answer
\* exceed its Hits plus the earlier positions of the guess that hold the
\* letter without being Hit; otherwise Miss.
RefStatus(G, A, i) ==
    IF G[i] = A[i] THEN "Hit"
    ELSE LET L == G[i]
             hits == Cardinality({j \in 1..5 : G[j] = L /\ A[j] = L})
             earlier == Cardinality({j \in 1..(i - 1) : G[j] = L /\ A[j] # L})
         IN  IF earlier < CountIn(L, A) - hits THEN "Present" ELSE "Miss"

Reference(G, A) == [i \in 1..5 |-> RefStatus(G, A, i)]

\* EvaluateGuess has returned.
Scored == ev.result # <<>>

\* C25: for five-letter upper-case words G and A, EvaluateGuess(G, A) is the
\* two-pass reference scoring; a word scored against itself is all Hit;
\* SPEED against ERASE is Present, Miss, Present, Present, Miss and GEESE
\* against ERASE is Miss, Present, Miss, Hit, Hit.
C25_EvaluateIsTwoPassReference ==
    Scored
    => /\ ev.result = Reference(ev.guess, ev.answer)
       /\ ev.guess = ev.answer => ev.result = [i \in 1..5 |-> "Hit"]
       /\ (ev.guess = SPEED /\ ev.answer = ERASE)
             => ev.result = <<"Present", "Miss", "Present", "Present", "Miss">>
       /\ (ev.guess = GEESE /\ ev.answer = ERASE)
             => ev.result = <<"Miss", "Present", "Miss", "Hit", "Hit">>

\* C25 witness: GEESE has been scored against ERASE, with a Miss on a letter
\* of the answer whose occurrences are used up.
C25_Witness ==
    /\ Scored
    /\ ev.guess = GEESE
    /\ ev.answer = ERASE
    /\ ev.result[3] = "Miss"
    /\ ev.result[4] = "Hit"

\* The positions of the scored guess that hold L and are Hit or Present.
Marked(L) ==
    Cardinality({i \in 1..5 : ev.guess[i] = L /\ ev.result[i] \in {"Hit", "Present"}})

Min(a, b) == IF a <= b THEN a ELSE b

ScoredLetters == {ScoreAlphabet[i] : i \in 1..Len(ScoreAlphabet)}

\* C26: in the scoring of G against A, for every letter L the positions that
\* hold L in G and are Hit or Present are as many as the smaller of the
\* occurrences of L in G and in A, hence never more than its occurrences in
\* A; when G and A share no letter every position is Miss.
C26_MarksBoundedByAnswer ==
    Scored
    => /\ \A L \in ScoredLetters :
             /\ Marked(L) = Min(CountIn(L, ev.guess), CountIn(L, ev.answer))
             /\ Marked(L) <= CountIn(L, ev.answer)
       /\ (\A L \in ScoredLetters : CountIn(L, ev.guess) = 0 \/ CountIn(L, ev.answer) = 0)
             => ev.result = [i \in 1..5 |-> "Miss"]

\* C26 witness: a scored guess that holds a letter more often than the
\* answer does, one occurrence of it out of place, and a second letter the
\* answer does not hold.
C26_Witness ==
    /\ Scored
    /\ \E L \in ScoredLetters :
          /\ CountIn(L, ev.guess) > CountIn(L, ev.answer)
          /\ CountIn(L, ev.answer) > 0
          /\ \E i \in 1..5 : ev.guess[i] = L /\ ev.result[i] = "Present"
          /\ \E i \in 1..5 : ev.guess[i] = L /\ ev.result[i] = "Miss"
    /\ \E L \in ScoredLetters : CountIn(L, ev.guess) > 0 /\ CountIn(L, ev.answer) = 0

\* The step on which the CreateRoom call of caller c ends (by a return or by
\* a panic).
CallEnds(c) ==
    /\ mgr'.calls[c] # mgr.calls[c]
    /\ mgr'.calls[c].pc = "idle"

\* The room ids allocated so far.
Allocated == {ToString(k) : k \in 1..mgr.idCounter}

ConfigError == "ConfigError"

\* C28: a CreateRoom call given an empty word list or maxRounds <= 0 ends
\* with the error ConfigError - not with a panic - and leaves the rooms and
\* the id counter as they were.
C28_CreateRoomRejectsBadConfig ==
    [][\A c \in Creators :
          (/\ CallEnds(c)
           /\ \/ Len(mgr'.calls[c].wordList) = 0
              \/ mgr'.calls[c].maxRounds <= 0)
          => /\ mgr'.calls[c].err = ConfigError
             /\ mgr'.rooms = mgr.rooms
             /\ mgr'.idCounter = mgr.idCounter]_vars

\* C30: every room of the manager has between 2 and 8 places, whatever the
\* request's maxPlayers was (4 when the request gives no usable value).
C30_MaxPlayersWithinTwoToEight ==
    \A id \in DOMAIN mgr.rooms :
        /\ 2 <= mgr.rooms[id].MaxPlayers
        /\ mgr.rooms[id].MaxPlayers <= 8

\* The answer a response of the single-player server carries (<<>>: none).
AnswerShown(val) == val.Answer # <<>>

\* Every guess response kept in a history was built from a game that was
\* over if and only if it says so.
HistoryHidesAnswer(history, answer) ==
    \A i \in 1..Len(history) :
        /\ AnswerShown(history[i]) <=> history[i].GameStatus \in {"won", "lost"}
        /\ AnswerShown(history[i]) => history[i].Answer = answer
        /\ history[i].GameStatus \in {"won", "lost"} => i = Len(history)

\* C31: a guess response or a status response of the single-player server
\* carries the session's answer exactly when the session's game is Won or
\* Lost as the response is built (under the session's lock, so on the step
\* that returns it); a response built while the game is InProgress carries
\* no answer, neither in its own field nor in the history it lists.
C31_AnswerOnlyWhenSessionOver ==
    [][(session'.ret # session.ret /\ session'.ret.op \in {"Guess", "Status"}
          /\ session'.ret.err = OK)
       => LET val == session'.ret.val
              g == session'.Game
          IN  /\ AnswerShown(val) <=> g.Status \in {"Won", "Lost"}
              /\ AnswerShown(val) => val.Answer = g.Answer
              /\ g.Status = "InProgress" => val.GameStatus = "in_progress"
              /\ session'.ret.op = "Status"
                    => /\ val.History = session'.History
                       /\ HistoryHidesAnswer(val.History, g.Answer)
                       /\ g.Status = "InProgress"
                             => \A i \in 1..Len(val.History) :
                                   ~AnswerShown(val.History[i])]_vars

\* C31 witness: a status response built in progress after one guess, with
\* no answer in it.
C31_Witness ==
    /\ session.ret.op = "Status"
    /\ session.Game.Status = "InProgress"
    /\ Len(session.ret.val.History) = 1
    /\ ~AnswerShown(session.ret.val)

\* C32: a Join, Leave, Start or Guess call that is rejected leaves the whole
\* room as it was - host, answer, places, status, version, the order of the
\* players, and every player with its status, finish time, history and
\* game (round, history, status) - and wakes no parked waiter.
C32_RejectedCallChangesNothing ==
    [][(IsMutatingCall /\ ret'.err # OK)
       => /\ UNCHANGED <<Host, Answer, MaxPlayers, Status, Version, PlayerOrder>>
          /\ DOMAIN Players' = DOMAIN Players
          /\ \A q \in DOMAIN Players :
                /\ Players'[q].Status = Players[q].Status
                /\ Players'[q].FinishTime = Players[q].FinishTime
                /\ Players'[q].History = Players[q].History
                /\ Players'[q].Game = Players[q].Game
          /\ UNCHANGED gpc]_vars

\* C32 witness: a guess was rejected for its word by the player's game, in
\* a room being played, while a long-poll request is parked on the room.
C32_Witness ==
    /\ ret.op = "Guess"
    /\ ret.err = ErrInvalidWord
    /\ Status = "playing"
    /\ gpc["w1"] = "parked"

\* C33: whenever the room holds at least one player, its host is one of the
\* players in it - also after the host has left as the last player and
\* others have joined the emptied room.
C33_HostIsAPlayer == DOMAIN Players # {} => Host \in DOMAIN Players

\* C34: a Start call succeeds only when its caller is a player of the room
\* at that moment; an id that has left the room, or never joined it, cannot
\* start the game.
C34_StartOnlyByAPlayer ==
    [][(IsStart /\ ret'.err = OK) => ret'.pid \in DOMAIN Players]_vars

\* The ids in the order of the players.
OrderIds == {PlayerOrder[i] : i \in 1..Len(PlayerOrder)}

\* C35: PlayerOrder holds no id twice and its ids are exactly the keys of
\* Players, so every entry that Progress and Status look up in Players is
\* there.
C35_OrderMatchesPlayers ==
    /\ \A i, j \in 1..Len(PlayerOrder) : PlayerOrder[i] = PlayerOrder[j] => i = j
    /\ OrderIds = DOMAIN Players
    /\ \A q \in DOMAIN Players : Players[q].ID = q

\* C35 witness: the creator left a room of two and joined it again, and is
\* now the last of the order.
C35_Witness ==
    /\ ret.op = "Join"
    /\ ret.err = OK
    /\ ret.pid = HostId
    /\ Len(PlayerOrder) = 2
    /\ PlayerOrder[2] = HostId
    /\ Version >= 3

\* The status of a player that goes with the status of its game.
PlayerStatusOf(g) ==
    CASE g.Status = "InProgress" -> "playing"
      [] g.Status = "Won" -> "won"
      [] g.Status = "Lost" -> "lost"
      [] OTHER -> "waiting"

Winners == {q \in DOMAIN Players : Players[q].Status = "won"}

\* C37: at most one player of the room is won, however the Guess calls of
\* the players interleave; a second correct guess, arriving after the
\* first, is refused and recorded nowhere.
C37_AtMostOneWinner ==
    /\ Cardinality(Winners) <= 1
    /\ Cardinality({q \in DOMAIN Players : Players[q].Game.Status = "Won"}) <= 1

\* C37 witness: in a room of three one player has won, and the guess of
\* another, still playing after a wrong first guess, has been refused.
C37_Witness ==
    /\ Cardinality(DOMAIN Players) = 3
    /\ Cardinality(Winners) = 1
    /\ ret.op = "Guess"
    /\ ret.err = ErrNotInProgress
    /\ ret.pid \in DOMAIN Players \ Winners
    /\ Players[ret.pid].Status = "playing"
    /\ Players[ret.pid].Game.CurrentRound = 1

\* C38: once a snapshot of the finished room has been returned, every later
\* snapshot reports the same answer, the same winner and the same ranking,
\* whatever was called in between (Leave included); and when a player of
\* the room is won, the winner reported is that player.
C38_FinalResultStable ==
    [][(SnapshotReturned /\ rd'.last.Status = "finished")
       => /\ Winners # {} => rd'.last.Winner \in Winners
          /\ rd.last.Status = "finished"
                => /\ rd'.last.Answer = rd.last.Answer
                   /\ rd'.last.Winner = rd.last.Winner
                   /\ rd'.last.Ranking = rd.last.Ranking]_vars

\* Some long-poll goroutine is parked in updateCond.Wait().
SomeParked == \E w \in Waiters : gpc[w] = "parked"

\* Room.mu is free: the one condition a call on the room waits for (every
\* call takes the lock first and returns without blocking on anything else),
\* shown on the calls that do not build a snapshot.
RoomCallsCanRun ==
    /\ lockHolder = NoOne
    /\ ENABLED (\E p \in PollIds : JoinRoom(p))
    /\ ENABLED (\E p \in PollIds : LeaveRoom(p))
    /\ ENABLED (\E p \in PollIds : StartGame(p))

\* C39: parked long-poll waiters never stop the room.  A helper goroutine
\* holds Room.mu only between taking it and calling Wait, never while parked;
\* whenever the goroutines that exist are all parked or gone, every Join,
\* Leave, Start, Guess, Progress and Status call can take the lock and
\* return; and a goroutine that holds the lock gives it up.
C39_WaitersNeverBlockRoom ==
    /\ [](\A w \in Waiters : lockHolder = w => gpc[w] = "wait")
    /\ []((SomeParked /\ \A w \in Waiters : gpc[w] # "wait") => RoomCallsCanRun)
    /\ \A w \in Waiters : (lockHolder = w) ~> (lockHolder = NoOne)

\* C39 witness: both requests were parked on the room when a mutating call
\* took the lock, returned without error and woke them (no deadline has
\* expired and no client has gone, so only the call's Broadcast wakes).
C39_Witness ==
    /\ \A w \in Waiters : gpc[w] = "woken" /\ ~CtxDone(w) /\ lastVersion[w] < Version
    /\ ret.op \in {"Join", "Leave", "Start", "Guess"}
    /\ ret.err = OK
    /\ lockHolder = NoOne

\* A handler of the server reads a mutable field of the room in this step.
FieldRead ==
    /\ srv' # srv
    /\ srv'.op \in {"ListRooms", "GetStatus", "IsHost"}

\* C40: every read of the room's mutable fields (Status by ListRooms, the
\* players by GetStatus, Host for the join response's IsHost) is made
\* holding Room.mu, so none happens while another goroutine holds the lock.
C40_ReadsUnderRoomLock ==
    [][FieldRead => lockHolder = NoOne]_vars

====
